---- MODULE Spec2Model ----
(***************************************************************************)
(* Order lifecycle state machine and checker harness of auto_test_poc.     *)
(*                                                                         *)
(* Spec     : one Order driven through GenericChecker (common/test_utils). *)
(* SpecFix  : one Order driven through FIXClientChecker (common/fix_utils) *)
(*            over a DummyFixClient and a DummyExchangeSim, every call     *)
(*            made with camelCase or with snake_case keyword names.        *)
(* SpecCodec: the FIX tag=value encoders and decoders (common/fix_cli,     *)
(*            common/fix_msg, fix_poc/stress_fix_asyncio,                  *)
(*            fix_poc/fix_server_asyncio) applied to bounded messages.     *)
(* SpecCli  : one FixClient session (common/fix_cli).                      *)
(* SpecAhd  : one AHDClient connection (common/ahd_cli).                   *)
(* SpecStream  : the two FIX stream extractors fed a byte stream in chunks. *)
(* SpecAhdRecv : the AHDClient receive loop, its handlers and login().     *)
(* SpecFin  : AHDClient.stop() and FixClient.disconnect() called again.    *)
(* SpecEsp  : the fixed-width ESP fields and the length fields of a build  *)
(*            (common/scapy_utils, common/ahd_msg).                        *)
(* SpecAck  : one Order driven through AHDClientChecker (common/ahd_utils).*)
(* SpecThr  : two caller threads inside AHDClient.send_msg.                *)
(* SpecWrk  : one stress worker sampling latency (fix_poc).                *)
(* SpecPop  : Order.pop_modify applied to a given history.                 *)
(* SpecRcv  : the receive counters of AHDClient, frame by frame.           *)
(* SpecInt  : the InternalProcessing IDs of successive sends.              *)
(* SpecOut  : AHDClient.logout().                                          *)
(* SpecLive : the two workers of an AHDClient and stop(), with the         *)
(*            threads scheduled fairly.                                    *)
(* SpecBook : a checker, its orders and find_order_by.                     *)
(*                                                                         *)
(* Modelling conventions                                                   *)
(*  - a Python dict (keyword args) is a function whose DOMAIN is the set of    *)
(*    keys holding a non-None value (every reader in the source treats a   *)
(*    None value like an absent key); the empty dict is << >>;             *)
(*  - None is the string "<None>" (str(None) is the string "None");        *)
(*  - quantities are integers; prices are integers counting tenths         *)
(*    (100 is 10.0), so that str() of a price can be modelled;             *)
(*  - a handler is an operator from (order, kwargs) to [o, exc]: the order *)
(*    it leaves behind and the exception it raised (NoExc when none).      *)
(***************************************************************************)
EXTENDS Integers, Sequences, FiniteSets, TLC

VARIABLES order, nops, lastCall, raised, pre, hist,
          fx, fnops, fcall, ftwin,
          codec, cli, ahd,
          strm, arx, fin, esp, ack, thr, wrk,
          hq, lv, fo

(* the Order driven through GenericChecker *)
mainvars == <<order, nops, lastCall, raised, pre, hist>>
(* the Order driven through FIXClientChecker *)
fixvars == <<fx, fnops, fcall, ftwin>>
(* the FIX codec under test, the FixClient session, the AHDClient session *)
sessvars == <<codec, cli, ahd>>
(* the stream extractor, the AHD receive loop, a client being shut down,
   an ESP message being built, the AHDClientChecker, two sending threads,
   a stress worker *)
auxvars == <<strm, arx, fin, esp, ack, thr, wrk>>
(* a modification history handed to pop_modify, the two workers of a
   client being stopped, a checker's order list and its indexes *)
auxvars2 == <<hq, lv, fo>>
vars == <<mainvars, fixvars, sessvars, auxvars, auxvars2>>

(* ------------------------------ bounds -------------------------------- *)
MaxOps == 5
MaxFixOps == 3
MaxReceived == 1
MaxCliOps == 4
MaxAhdOps == 5
MaxFrames == 2
MaxArrivals == 3
MaxQueued == 2
MaxStops == 3
MaxFills == 2
MaxSends == 1
MaxMessages == 2
MaxHistory == 3
MaxNotices == 2
MaxPuts == 2
MaxOrders == 2
MaxBookOps == 3
MaxBytes == 2

(* ------------------------------ helpers ------------------------------- *)
None == "<None>"
NoExc == "none"
EmptyDict == << >>

Max(a, b) == IF a >= b THEN a ELSE b

Ok(o) == [o |-> o, exc |-> NoExc]
Raise(o, e) == [o |-> o, exc |-> e]

(* ------------------------- Order (test_utils.py) ----------------------- *)
_modify_attributes == {"order_qty", "order_price", "cl_ord_id", "time_in_force"}

alias_map ==
  [orderQty |-> "order_qty", execQty |-> "exec_qty", orderPrice |-> "order_price",
   clOrdID |-> "cl_ord_id", destClOrdID |-> "dest_cl_ord_id", orderID2 |-> "order_id2",
   timeInForce |-> "time_in_force", clientID |-> "client_id",
   accountID |-> "account_id", orderStatus |-> "order_status"]

mapping ==
  alias_map @@
  [dOrderQty |-> "d_order_qty", dOrderPrice |-> "d_order_price",
   execPrice |-> "exec_price", execID2 |-> "exec_id2",
   transactTime |-> "transact_time", tradeDate |-> "trade_date"]

(* out = dict(kwargs); out[snake] = out[camel] when camel is there and snake is not *)
_normalize_kwargs(kwargs) ==
  LET camels == {c \in DOMAIN kwargs \cap DOMAIN mapping : mapping[c] \notin DOMAIN kwargs}
      added == {mapping[c] : c \in camels}
      camelOf(s) == CHOOSE c \in camels : mapping[c] = s
  IN [k \in DOMAIN kwargs \cup added |->
        IF k \in DOMAIN kwargs THEN kwargs[k] ELSE kwargs[camelOf(k)]]

(* The dataclass defaults; ctor keeps the camelCase constructor fields. *)
OrderDefaults ==
  [security |-> None, side |-> None, order_qty |-> None, exec_qty |-> 0,
   order_price |-> None, cl_ord_id |-> None, dest_cl_ord_id |-> None,
   order_id2 |-> None, time_in_force |-> None, client_id |-> None,
   account_id |-> None, order_status |-> "new", dk |-> FALSE,
   queue |-> <<EmptyDict>>, ctor |-> EmptyDict]

(* Order(checker, args): the generated __init__ stores every argument,   *)
(* then __post_init__ copies a camelCase argument to its snake_case field  *)
(* when that field still holds None, 0 or "new".                           *)
__post_init__(args) ==
  LET camel == {c \in DOMAIN args \cap DOMAIN alias_map : alias_map[c] \notin DOMAIN args}
      camelOf(s) == CHOOSE c \in camel : alias_map[c] = s
      snakes == {alias_map[c] : c \in camel}
  IN [f \in DOMAIN OrderDefaults |->
        IF f = "ctor" THEN [c \in DOMAIN args \cap DOMAIN alias_map |-> args[c]]
        ELSE IF f \in DOMAIN args THEN args[f]
        ELSE IF f \in snakes THEN args[camelOf(f)]
        ELSE OrderDefaults[f]]

(* property open_qty (order_qty and exec_qty are never None in this model) *)
open_qty(o) == IF o.order_status = "closed" THEN 0 ELSE o.order_qty - o.exec_qty

(* setattr(self, attr, kwargs[attr]) for attr in attrs when present and not None *)
SetAttrs(o, k, attrs) ==
  [f \in DOMAIN o |-> IF f \in attrs /\ f \in DOMAIN k THEN k[f] ELSE o[f]]

(* self.queue.append(dict(self.queue[-1])) : IndexError on an empty queue is
   raised by the callers' guard below *)
push_modify(o) == [o EXCEPT !.queue = Append(@, @[Len(@)])]

(* the restore that resets the front of the history and adjusts no later
   entry *)
RestoreQueue_front_only(old_old, q) ==
  [i \in 1..Len(q) |-> IF i = 1 THEN old_old ELSE q[i]]

(* The restore branch of pop_modify on the history q left after the pop.
   Every entry of a history has the same key set (push_modify copies the top
   and the restore gives the front exactly the keys of old_old), so the
   numeric adjustment never meets a missing key. *)
RestoreQueue(old_old, q) ==
  LET front == q[1]
      numeric(a) == /\ a \in {"order_qty", "order_price"}
                    /\ a \in DOMAIN old_old
                    /\ a \in DOMAIN front
      diff(a) == front[a] - old_old[a]
  IN [i \in 1..Len(q) |->
        IF i = 1
        THEN [a \in DOMAIN old_old |->
                IF numeric(a) THEN front[a] - diff(a) ELSE old_old[a]]
        ELSE [a \in DOMAIN q[i] |->
                IF numeric(a) THEN q[i][a] - diff(a) ELSE q[i][a]]]

pop_modify(o, restore) ==
  IF Len(o.queue) = 0
  THEN Raise(o, "IndexError")
  ELSE LET old_old == Head(o.queue)
           rest == Tail(o.queue)
       IN IF ~restore THEN Ok([o EXCEPT !.queue = rest])
          ELSE IF Len(rest) = 0 THEN Raise([o EXCEPT !.queue = rest], "IndexError")
          ELSE Ok([o EXCEPT !.queue = RestoreQueue(old_old, rest)])

(* Order.__getattr__ for the name prefix + "_" + attr_name with prefix "old"
   or "prev" (name.split("_", 1)): [ok, val], ok FALSE for AttributeError.
   Python calls it only for names that normal lookup does not find. *)
__getattr__(o, prefix, attr_name) ==
  LET q == o.queue
      i == IF prefix = "old" THEN 1 ELSE Len(q) - 1
  IN IF attr_name \notin _modify_attributes THEN [ok |-> FALSE, val |-> None]
     ELSE IF i < 1 \/ i > Len(q) THEN [ok |-> FALSE, val |-> None]
     ELSE IF attr_name \notin DOMAIN q[i] THEN [ok |-> FALSE, val |-> None]
     ELSE [ok |-> TRUE, val |-> q[i][attr_name]]

_ordering(o, kwargs) ==
  Ok(SetAttrs(o, _normalize_kwargs(kwargs),
              {"order_qty", "order_price", "cl_ord_id", "dest_cl_ord_id",
               "order_id2", "time_in_force", "client_id", "account_id"}))

_ordered(o, kwargs) ==
  _ordering([o EXCEPT !.order_status = "open"], _normalize_kwargs(kwargs))

_reject(o, kwargs) == Ok([o EXCEPT !.order_status = "closed"])

(* _modify with the delta applied unclamped: order_qty += d_order_qty *)
_modify_unclamped(o, kwargs) ==
  LET k == _normalize_kwargs(kwargs)
      o1 == push_modify(o)
      o2 == IF "order_qty" \in DOMAIN k
            THEN [o1 EXCEPT !.order_qty = Max(k.order_qty, 0)]
            ELSE IF "d_order_qty" \in DOMAIN k
            THEN [o1 EXCEPT !.order_qty = @ + k.d_order_qty]
            ELSE o1
      o3 == IF "order_price" \in DOMAIN k
            THEN [o2 EXCEPT !.order_price = k.order_price]
            ELSE IF "d_order_price" \in DOMAIN k
            THEN [o2 EXCEPT !.order_price = @ + k.d_order_price]
            ELSE o2
  IN IF Len(o.queue) = 0 THEN Raise(o, "IndexError")
     ELSE Ok(SetAttrs(o3, k, {"cl_ord_id", "dest_cl_ord_id", "time_in_force",
                              "client_id", "account_id"}))

_modify(o, kwargs) ==
  LET k == _normalize_kwargs(kwargs)
      o1 == push_modify(o)
      o2 == IF "order_qty" \in DOMAIN k
            THEN [o1 EXCEPT !.order_qty = Max(k.order_qty, 0)]
            ELSE IF "d_order_qty" \in DOMAIN k
            THEN [o1 EXCEPT !.order_qty = @ + Max(k.d_order_qty, -open_qty(o1))]
            ELSE o1
      o3 == IF "order_price" \in DOMAIN k
            THEN [o2 EXCEPT !.order_price = k.order_price]
            ELSE IF "d_order_price" \in DOMAIN k
            THEN [o2 EXCEPT !.order_price = @ + k.d_order_price]
            ELSE o2
  IN IF Len(o.queue) = 0 THEN Raise(o, "IndexError")
     ELSE Ok(SetAttrs(o3, k, {"cl_ord_id", "dest_cl_ord_id", "time_in_force",
                              "client_id", "account_id"}))

_modifying(o, kwargs) == _ordering(o, _normalize_kwargs(kwargs))

_modified(o, kwargs) ==
  LET p == pop_modify(o, FALSE)
      o1 == _ordering(p.o, _normalize_kwargs(kwargs)).o
  IN IF p.exc # NoExc THEN p
     ELSE Ok(IF open_qty(o1) <= 0 THEN [o1 EXCEPT !.order_status = "closed"] ELSE o1)

_mod_reject(o, kwargs) == pop_modify(o, TRUE)

_cancel(o, kwargs) ==
  IF Len(o.queue) = 0 THEN Raise(o, "IndexError")
  ELSE Ok(SetAttrs(push_modify(o), _normalize_kwargs(kwargs),
                   {"cl_ord_id", "dest_cl_ord_id", "client_id", "account_id"}))

_canceling(o, kwargs) == _ordering(o, _normalize_kwargs(kwargs))

_canceled(o, kwargs) ==
  LET p == pop_modify(o, FALSE)
      o1 == _ordering(p.o, _normalize_kwargs(kwargs)).o
  IN IF p.exc # NoExc THEN p ELSE Ok([o1 EXCEPT !.order_status = "closed"])

_cxl_reject(o, kwargs) == pop_modify(o, TRUE)

_expire(o, kwargs) ==
  Ok(SetAttrs([o EXCEPT !.order_status = "closed"], _normalize_kwargs(kwargs),
              {"client_id", "account_id"}))

_dfd(o, kwargs) ==
  Ok(SetAttrs([o EXCEPT !.order_status = "closed"], _normalize_kwargs(kwargs),
              {"client_id", "account_id"}))

(* _fill closing only when open_qty < 0 instead of <= 0 *)
_fill_strict(o, kwargs) ==
  LET k == _normalize_kwargs(kwargs)
      o1 == [o EXCEPT !.exec_qty = @ + k.exec_qty]
      o2 == [o1 EXCEPT !.order_qty = Max(o1.order_qty, o1.exec_qty)]
      o3 == IF open_qty(o2) < 0 THEN [o2 EXCEPT !.order_status = "closed"] ELSE o2
  IN IF "exec_qty" \notin DOMAIN k THEN Raise(o, "KeyError")
     ELSE Ok(SetAttrs(o3, k, {"client_id", "account_id"}))

_fill(o, kwargs) ==
  LET k == _normalize_kwargs(kwargs)
      o1 == [o EXCEPT !.exec_qty = @ + k.exec_qty]
      o2 == [o1 EXCEPT !.order_qty = Max(o1.order_qty, o1.exec_qty)]
      o3 == IF open_qty(o2) <= 0 THEN [o2 EXCEPT !.order_status = "closed"] ELSE o2
  IN IF "exec_qty" \notin DOMAIN k THEN Raise(o, "KeyError")
     ELSE Ok(SetAttrs(o3, k, {"client_id", "account_id"}))

_bust(o, kwargs) ==
  LET k == _normalize_kwargs(kwargs)
      o1 == [o EXCEPT !.exec_qty = @ - k.exec_qty]
      o2 == IF open_qty(o1) > 0 THEN [o1 EXCEPT !.order_status = "open"] ELSE o1
  IN IF "exec_qty" \notin DOMAIN k THEN Raise(o, "KeyError")
     ELSE Ok(SetAttrs(o2, k, {"client_id", "account_id"}))

(* ----------------------- GenericChecker (test_utils.py) ---------------- *)
(* GenericChecker.callback: look up the method "_" + callback_type of the
   order and call it with the keyword arguments *)
callback(callback_type, o, kwargs) ==
  CASE callback_type = "ordering" -> _ordering(o, kwargs)
    [] callback_type = "ordered" -> _ordered(o, kwargs)
    [] callback_type = "reject" -> _reject(o, kwargs)
    [] callback_type = "modify" -> _modify(o, kwargs)
    [] callback_type = "modifying" -> _modifying(o, kwargs)
    [] callback_type = "modified" -> _modified(o, kwargs)
    [] callback_type = "mod_reject" -> _mod_reject(o, kwargs)
    [] callback_type = "cancel" -> _cancel(o, kwargs)
    [] callback_type = "canceling" -> _canceling(o, kwargs)
    [] callback_type = "canceled" -> _canceled(o, kwargs)
    [] callback_type = "cxl_reject" -> _cxl_reject(o, kwargs)
    [] callback_type = "expire" -> _expire(o, kwargs)
    [] callback_type = "dfd" -> _dfd(o, kwargs)
    [] callback_type = "fill" -> _fill(o, kwargs)
    [] callback_type = "bust" -> _bust(o, kwargs)

(* ------------------------- inputs of the calls ------------------------- *)
(* Order(checker, security=.., side=.., orderQty=q, orderPrice=p [, clOrdID=c]) *)
CtorArgs ==
  {[security |-> "BABA", side |-> "S", orderQty |-> 2, orderPrice |-> 100],
   [security |-> "BABA", side |-> "S", orderQty |-> 3, orderPrice |-> 100,
    clOrdID |-> "A"]}

OrderedKwargs == {EmptyDict}
PatchKwargs == {[clOrdID |-> "B"]}
ModifyKwargs ==
  {[orderQty |-> q] : q \in {-1, 1}}
  \cup {[dOrderQty |-> d] : d \in {-4, -1, 1}}
  \cup {[orderQty |-> 4, dOrderQty |-> -1]}
  \cup {[orderPrice |-> 110], [dOrderPrice |-> 10]}
  \cup {[clOrdID |-> "B", timeInForce |-> "IOC"]}
ModifiedKwargs == {EmptyDict, [orderQty |-> 1]}
FillKwargs == {[execQty |-> x, execPrice |-> 101] : x \in {1, 3}}
BustKwargs == {[execQty |-> 1]}

(* ------------------- the call chains of the unit tests ----------------- *)
Scenarios ==
  { <<"ordered", "modify", "modified", "cancel", "canceled">>,
    <<"ordered", "fill", "fill">>,
    <<"ordered", "modify", "modified", "modify", "modified">> }

OffScenario == <<[op |-> "other", kw |-> EmptyDict]>>

HistOps(h) == [i \in 1..Len(h) |-> h[i].op]

IsScenarioPrefix(names) ==
  \E sc \in Scenarios :
    /\ Len(names) <= Len(sc)
    /\ \A i \in 1..Len(names) : names[i] = sc[i]

(* hist: the calls made on the order so far while they follow one of the
   test chains, OffScenario once they no longer do (a history variable) *)
NextHist(h, call) ==
  IF h # OffScenario /\ IsScenarioPrefix(Append(HistOps(h), call.op))
  THEN Append(h, call)
  ELSE OffScenario

(* ------------------------------ the machine ---------------------------- *)
(* the FIX checker's variables while only the GenericChecker machine runs *)
(* the codec with nothing encoded yet *)
CodecRest ==
  [msg |-> << >>, encoder |-> "none", frame |-> << >>, exc |-> NoExc,
   damage |-> "none", decoder |-> "none", decoded |-> << >>,
   decode_exc |-> NoExc]

(* FixClient.__init__: both sequence numbers start at 1, the queues are
   empty. connected, buffer, placed and last_recv are what connect(), the
   receive loop's local buffer, the record of every frame put on send_queue
   and the record of the last recv() hold. *)
FixClient__init__ ==
  [out_seq_num |-> 1, in_seq_num |-> 1, send_queue |-> << >>,
   receive_queue |-> << >>, connected |-> FALSE, stop_event |-> FALSE,
   buffer |-> << >>, placed |-> << >>,
   last_recv |-> [data |-> << >>, queued_before |-> 0], last_op |-> "init",
   n |-> 0]

(* AHDClient.__init__ and what start() initialises *)
AHDClient__init__ ==
  [_heartbeats_allowed |-> FALSE, heartbeat_timeout |-> 1,
   last_sent_order_entry_seq_no |-> 0, last_sent_seq_no |-> 0,
   last_rcvd_seq_no |-> 0, send_queue |-> << >>, stop_event |-> FALSE,
   now |-> 0, last_send |-> 0, prepared |-> << >>, wire |-> << >>,
   last_op |-> [op |-> "start"], n |-> 0]

(* a part of the program that a specification leaves out holds << >> *)
AuxIdleBut(name) ==
  /\ name # "strm" => strm = << >>
  /\ name # "arx" => arx = << >>
  /\ name # "fin" => fin = << >>
  /\ name # "esp" => esp = << >>
  /\ name # "ack" => ack = << >>
  /\ name # "thr" => thr = << >>
  /\ name # "wrk" => wrk = << >>
  /\ name # "hq" => hq = << >>
  /\ name # "lv" => lv = << >>
  /\ name # "fo" => fo = << >>

SessIdle ==
  /\ codec = CodecRest
  /\ cli = FixClient__init__
  /\ ahd = AHDClient__init__

FixIdle ==
  /\ fx = [o |-> OrderDefaults, exc |-> NoExc, field |-> None,
           received |-> << >>, fills |-> << >>]
  /\ fnops = 0
  /\ fcall = [op |-> "init", kw |-> EmptyDict, style |-> "camel"]
  /\ ftwin = fx

Init ==
  /\ AuxIdleBut("")
  /\ order \in {__post_init__(a) : a \in CtorArgs}
  /\ nops = 0
  /\ lastCall = [op |-> "init", kw |-> EmptyDict]
  /\ raised = NoExc
  /\ pre = order
  /\ hist = << >>
  /\ FixIdle
  /\ SessIdle

(* Order.<op> with keyword arguments kw: self.checker.<op>(self, kw), which
   is GenericChecker.callback(<op>, order, kw) *)
Call(op, kw) ==
  LET res == callback(op, order, kw)
  IN /\ order' = res.o
     /\ raised' = res.exc
     /\ pre' = order
     /\ lastCall' = [op |-> op, kw |-> kw]
     /\ nops' = nops + 1
     /\ hist' = NextHist(hist, [op |-> op, kw |-> kw])
     /\ UNCHANGED <<fixvars, sessvars, auxvars, auxvars2>>

Ordering == \E kw \in PatchKwargs : nops < MaxOps /\ Call("ordering", kw)
Ordered == \E kw \in OrderedKwargs : nops < MaxOps /\ Call("ordered", kw)
Reject == nops < MaxOps /\ Call("reject", EmptyDict)
Modify == \E kw \in ModifyKwargs : nops < MaxOps /\ Call("modify", kw)
Modified == \E kw \in ModifiedKwargs : nops < MaxOps /\ Call("modified", kw)
ModReject == nops < MaxOps /\ Call("mod_reject", EmptyDict)
Cancel == nops < MaxOps /\ Call("cancel", EmptyDict)
Canceled == nops < MaxOps /\ Call("canceled", EmptyDict)
CxlReject == nops < MaxOps /\ Call("cxl_reject", EmptyDict)
Expire == nops < MaxOps /\ Call("expire", EmptyDict)
Dfd == nops < MaxOps /\ Call("dfd", EmptyDict)
Fill == \E kw \in FillKwargs : nops < MaxOps /\ Call("fill", kw)
Bust == \E kw \in BustKwargs : nops < MaxOps /\ Call("bust", kw)

Next ==
  \/ Ordering
  \/ Ordered
  \/ Reject
  \/ Modify
  \/ Modified
  \/ ModReject
  \/ Cancel
  \/ Canceled
  \/ CxlReject
  \/ Expire
  \/ Dfd
  \/ Fill
  \/ Bust

Spec == Init /\ [][Next]_vars

(* ==================== FIXClientChecker (fix_utils.py) ================== *)
Digits == <<"0", "1", "2", "3", "4", "5", "6", "7", "8", "9">>

(* the decimal digits of a natural number below 1000 *)
NatStr(n) ==
  LET d1 == Digits[(n % 10) + 1]
      d10 == Digits[((n \div 10) % 10) + 1]
      d100 == Digits[((n \div 100) % 10) + 1]
  IN IF n < 10 THEN d1 ELSE IF n < 100 THEN d10 \o d1 ELSE d100 \o d10 \o d1

(* str() of an int *)
IntStr(n) == IF n < 0 THEN "-" \o NatStr(-n) ELSE NatStr(n)

(* str() of a float price with one decimal, the price counted in tenths *)
PriceStr(p) == IntStr(p \div 10) \o "." \o NatStr(p % 10)

(* dict.get(key, default) *)
Get(d, key, default) == IF key \in DOMAIN d THEN d[key] ELSE default

SIDE_MAPPING == [B |-> "1", S |-> "2", SS |-> "5", SSE |-> "6"]
STATUS_MAPPING ==
  [NEW |-> "0", PARTIALLY_FILLED |-> "1", FILLED |-> "2", CANCELED |-> "4",
   REJECTED |-> "8"]
EXEC_TYPE_MAPPING ==
  [NEW |-> "0", PARTIAL_FILL |-> "1", FILL |-> "2", CANCELED |-> "4", REJECT |-> "8"]

(* FixTag (fix_msg.Field) values used by the checker, as message keys *)
CL_ORD_ID == "11"
ORDER_ID == "37"
SYMBOL == "55"
SIDE == "54"
ORDER_QTY == "38"
PRICE == "44"
LAST_QTY == "32"
LAST_PX == "31"
ORD_STATUS == "39"
EXEC_TYPE == "150"
MSG_TYPE == "35"
EXECUTION_REPORT == "8"

(* _validate_fix_message: the message type first, then the expected fields
   in dict order; a field expected as None is skipped, the first mismatch
   raises AssertionError naming the field. expected is a sequence of
   [tag, val]. *)
FirstMismatch(msg, expected) ==
  LET bad == {i \in 1..Len(expected) :
                /\ expected[i].val # None
                /\ Get(msg, expected[i].tag, None) # expected[i].val}
  IN IF bad = {} THEN None
     ELSE expected[CHOOSE i \in bad : \A j \in bad : i <= j].tag

_validate_fix_message(msg, expected_type, expected_fields) ==
  IF Get(msg, MSG_TYPE, None) # expected_type
  THEN [exc |-> "AssertionError", field |-> "Message Type"]
  ELSE LET bad == FirstMismatch(msg, expected_fields)
       IN IF bad = None THEN [exc |-> NoExc, field |-> None]
          ELSE [exc |-> "AssertionError", field |-> bad]

(* the expected fields ordered() and reject() share, but for status and type *)
ExpectedAck(o, kwargs, status, exec_type) ==
  LET side == Get(kwargs, "side", o.side)
      price == Get(kwargs, "price", o.order_price)
  IN << [tag |-> CL_ORD_ID, val |-> Get(kwargs, "clOrdID", o.cl_ord_id)],
        [tag |-> ORDER_ID, val |-> Get(kwargs, "orderID", None)],
        [tag |-> SYMBOL, val |-> Get(kwargs, "symbol", o.security)],
        [tag |-> SIDE, val |-> Get(SIDE_MAPPING, side, None)],
        [tag |-> ORDER_QTY, val |-> IntStr(Get(kwargs, "orderQty", o.order_qty))],
        [tag |-> PRICE, val |-> IF price # 0 THEN PriceStr(price) ELSE None],
        [tag |-> ORD_STATUS, val |-> status],
        [tag |-> EXEC_TYPE, val |-> exec_type] >>

(* A checker call leaves [o, exc, field, received, fills]: the order, the
   exception and the field it names, what is left on fix_client.received
   and the calls made on exchange_sim. The variable fx holds what the last
   call left, ftwin what the same call spelled the other way would leave. *)
FixResult(o, exc, field, rcv, fl) ==
  [o |-> o, exc |-> exc, field |-> field, received |-> rcv, fills |-> fl]

(* what a call of an Order method leaves, as the result of a checker call *)
AsFixResult(r, rcv, fl) == FixResult(r.o, r.exc, None, rcv, fl)

(* with no message (an empty dict) go straight to super().<op>(order,
   kwargs); otherwise validate the message first *)
ValidateThenSuper(op, o, kwargs, msg, expected, rcv, fl) ==
  LET v == _validate_fix_message(msg, EXECUTION_REPORT, expected)
  IN IF msg # EmptyDict /\ v.exc # NoExc
     THEN FixResult(o, v.exc, v.field, rcv, fl)
     ELSE AsFixResult(callback(op, o, kwargs), rcv, fl)

(* DummyFixClient.receiveMsg: received.pop(0) if received else {} *)
receiveMsg(rcv) ==
  IF Len(rcv) > 0 THEN [msg |-> Head(rcv), rest |-> Tail(rcv)]
  ELSE [msg |-> EmptyDict, rest |-> rcv]

FIXClientChecker_ordered(o, kwargs, rcv, fl) ==
  LET m == receiveMsg(rcv)
  IN ValidateThenSuper("ordered", o, kwargs, m.msg,
                       ExpectedAck(o, kwargs, STATUS_MAPPING.NEW, EXEC_TYPE_MAPPING.NEW),
                       m.rest, fl)

FIXClientChecker_reject(o, kwargs, rcv, fl) ==
  LET m == receiveMsg(rcv)
  IN ValidateThenSuper("reject", o, kwargs, m.msg,
                       ExpectedAck(o, kwargs, STATUS_MAPPING.REJECTED,
                                   EXEC_TYPE_MAPPING.REJECT),
                       m.rest, fl)

FIXClientChecker_fill(o, kwargs, rcv, fl) ==
  LET orderID == Get(kwargs, "orderID", None)
      callsSim == orderID # None
      m == receiveMsg(rcv)
      fl1 == IF callsSim
             THEN Append(fl, <<orderID, kwargs["execQty"], kwargs["execPrice"]>>)
             ELSE fl
      expected ==
        << [tag |-> CL_ORD_ID, val |-> Get(kwargs, "clOrdID", o.cl_ord_id)],
           [tag |-> ORDER_ID, val |-> orderID],
           [tag |-> SYMBOL, val |-> Get(kwargs, "symbol", o.security)],
           [tag |-> SIDE, val |-> Get(SIDE_MAPPING, Get(kwargs, "side", o.side), None)],
           [tag |-> ORDER_QTY, val |-> IntStr(Get(kwargs, "orderQty", o.order_qty))],
           [tag |-> LAST_QTY,
            val |-> IF "execQty" \in DOMAIN kwargs THEN IntStr(kwargs.execQty)
                    ELSE "None"],
           [tag |-> LAST_PX,
            val |-> IF "execPrice" \in DOMAIN kwargs THEN PriceStr(kwargs.execPrice)
                    ELSE "None"],
           [tag |-> ORD_STATUS, val |-> STATUS_MAPPING.FILLED],
           [tag |-> EXEC_TYPE, val |-> EXEC_TYPE_MAPPING.FILL] >>
  IN IF callsSim /\ ~({"execQty", "execPrice"} \subseteq DOMAIN kwargs)
     THEN FixResult(o, "KeyError", None, rcv, fl)
     ELSE ValidateThenSuper("fill", o, kwargs, m.msg, expected, m.rest, fl1)

(* the methods FIXClientChecker inherits from GenericChecker *)
FIXClientChecker_inherited(op, o, kwargs, rcv, fl) ==
  AsFixResult(callback(op, o, kwargs), rcv, fl)

FixDispatch(op, o, kwargs, rcv, fl) ==
  CASE op = "ordered" -> FIXClientChecker_ordered(o, kwargs, rcv, fl)
    [] op = "reject" -> FIXClientChecker_reject(o, kwargs, rcv, fl)
    [] op = "fill" -> FIXClientChecker_fill(o, kwargs, rcv, fl)
    [] OTHER -> FIXClientChecker_inherited(op, o, kwargs, rcv, fl)

(* the same keyword arguments spelled with the snake_case names of the
   alias table (a key the table does not hold keeps its name) *)
SnakeCase(kw) ==
  LET name(k) == IF k \in DOMAIN mapping THEN mapping[k] ELSE k
      orig(s) == CHOOSE k \in DOMAIN kw : name(k) = s
  IN [s \in {name(k) : k \in DOMAIN kw} |-> kw[orig(s)]]

(* --------------------------- inputs (FIX) ------------------------------ *)
Msg(pairs) == [t \in {p[1] : p \in pairs} |-> (CHOOSE p \in pairs : p[1] = t)[2]]

AckMsg ==
  Msg({<<"35", "8">>, <<"150", "0">>, <<"39", "0">>, <<"37", "X">>,
       <<"55", "BABA">>, <<"54", "1">>, <<"38", "3">>, <<"44", "10.0">>})
FillMsg(lastQty) ==
  Msg({<<"35", "8">>, <<"150", "2">>, <<"39", "2">>, <<"37", "X">>,
       <<"32", lastQty>>, <<"31", "10.1">>, <<"55", "BABA">>, <<"54", "1">>,
       <<"38", "3">>})
RejectMsg ==
  Msg({<<"35", "8">>, <<"150", "8">>, <<"39", "8">>, <<"55", "BABA">>,
       <<"54", "1">>, <<"38", "3">>})
FixMessages == {AckMsg, FillMsg("1"), FillMsg("2"), RejectMsg}

FixCtorArgs == [security |-> "BABA", side |-> "B", orderQty |-> 3, orderPrice |-> 100]

FixOrderedKwargs == {EmptyDict, [orderID |-> "X"], [orderQty |-> 3], [orderQty |-> 4]}
FixFillKwargs ==
  {[orderID |-> "X", execQty |-> x, execPrice |-> 101] : x \in {1, 2}}
  \cup {[execQty |-> 1, execPrice |-> 101]}
FixModifyKwargs == {[dOrderQty |-> -1], [orderPrice |-> 110]}

(* ---------------------------- the machine (FIX) ------------------------ *)
MainIdle ==
  /\ order = OrderDefaults
  /\ nops = 0
  /\ lastCall = [op |-> "init", kw |-> EmptyDict]
  /\ raised = NoExc
  /\ pre = order
  /\ hist = << >>

InitFix ==
  /\ AuxIdleBut("")
  /\ MainIdle
  /\ SessIdle
  /\ fx = FixResult(__post_init__(FixCtorArgs), NoExc, None, << >>, << >>)
  /\ fnops = 0
  /\ fcall = [op |-> "init", kw |-> EmptyDict, style |-> "camel"]
  /\ ftwin = fx

(* the test puts the next ExecutionReport on fix_client.received *)
Deliver ==
  \E m \in FixMessages :
    /\ Len(fx.received) < MaxReceived
    /\ fx' = [fx EXCEPT !.received = Append(@, m)]
    /\ UNCHANGED <<fnops, fcall, ftwin, mainvars, sessvars, auxvars, auxvars2>>

(* order.<op>(kw) through the FIX checker, kw spelled in `style`; ftwin is
   what the same call spelled the other way leaves from the same state *)
FixCall(op, kw, style) ==
  LET mine == IF style = "camel" THEN kw ELSE SnakeCase(kw)
      other == IF style = "camel" THEN SnakeCase(kw) ELSE kw
  IN /\ fx' = FixDispatch(op, fx.o, mine, fx.received, fx.fills)
     /\ ftwin' = FixDispatch(op, fx.o, other, fx.received, fx.fills)
     /\ fcall' = [op |-> op, kw |-> kw, style |-> style]
     /\ fnops' = fnops + 1
     /\ UNCHANGED <<mainvars, sessvars, auxvars, auxvars2>>

Styles == {"camel", "snake"}

FixOrdered ==
  \E kw \in FixOrderedKwargs, st \in Styles : fnops < MaxFixOps /\ FixCall("ordered", kw, st)
FixReject ==
  \E st \in Styles : fnops < MaxFixOps /\ FixCall("reject", EmptyDict, st)
FixFill ==
  \E kw \in FixFillKwargs, st \in Styles : fnops < MaxFixOps /\ FixCall("fill", kw, st)
FixModify ==
  \E kw \in FixModifyKwargs, st \in Styles : fnops < MaxFixOps /\ FixCall("modify", kw, st)
FixModified ==
  \E st \in Styles : fnops < MaxFixOps /\ FixCall("modified", EmptyDict, st)

NextFix ==
  \/ Deliver
  \/ FixOrdered
  \/ FixReject
  \/ FixFill
  \/ FixModify
  \/ FixModified

SpecFix == InitFix /\ [][NextFix]_vars

(* =============================== claims ================================ *)
ok == raised = NoExc

Attrs(o) ==
  <<o.order_qty, o.order_price, o.cl_ord_id, o.time_in_force, o.exec_qty,
    o.order_status>>

(* C1: for an open order, modify followed by mod_reject leaves orderQty,
   orderPrice, clOrdID, timeInForce, execQty and status equal to the values
   they had immediately before the modify. *)
ModifyModRejectRestores ==
  [][(/\ lastCall.op = "modify" /\ ok /\ pre.order_status = "open"
      /\ lastCall'.op = "mod_reject" /\ nops' = nops + 1)
     => Attrs(order') = Attrs(pre)]_vars

(* C2: in every state an Order reaches through the lifecycle calls,
   openQty >= 0. *)
OpenQtyNonNegative == open_qty(order) >= 0

(* C3: once the status is closed, none of ordered, ordering, modify,
   modified, mod_reject, cancel, canceled, cxl_reject, fill, expire, dfd,
   reject makes it open or new again. *)
ClosedStaysClosed ==
  [][(/\ order.order_status = "closed"
      /\ nops' = nops + 1
      /\ lastCall'.op \in {"ordered", "ordering", "modify", "modified",
                           "mod_reject", "cancel", "canceled", "cxl_reject",
                           "fill", "expire", "dfd", "reject"})
     => order'.order_status = "closed"]_vars

(* C4: after fill(x) on an open order with execQty + x >= orderQty the
   status is closed, openQty is 0, and orderQty has been raised to the new
   execQty when the fill overshoots it. *)
FillUpToOrderQtyCloses ==
  (/\ lastCall.op = "fill" /\ ok /\ pre.order_status = "open"
   /\ pre.exec_qty + lastCall.kw.execQty >= pre.order_qty)
  => /\ order.order_status = "closed"
     /\ open_qty(order) = 0
     /\ order.exec_qty = pre.exec_qty + lastCall.kw.execQty
     /\ order.order_qty = Max(pre.order_qty, order.exec_qty)

WitnessFillOvershoot ==
  /\ lastCall.op = "fill" /\ ok /\ pre.order_status = "open"
  /\ pre.exec_qty > 0
  /\ pre.exec_qty + lastCall.kw.execQty > pre.order_qty
  /\ order.order_status = "closed"
  /\ order.order_qty = order.exec_qty

(* C5: bust(x), x > 0, on an order that a full fill has closed subtracts x
   from execQty and re-opens the order: afterwards status is open and
   openQty = orderQty - execQty > 0. *)
BustReopensFilledOrder ==
  [][(/\ lastCall.op = "fill" /\ ok /\ pre.order_status = "open"
      /\ order.order_status = "closed" /\ order.exec_qty = order.order_qty
      /\ lastCall'.op = "bust" /\ nops' = nops + 1
      /\ lastCall'.kw.execQty > 0)
     => /\ order'.exec_qty = order.exec_qty - lastCall'.kw.execQty
        /\ order'.order_status = "open"
        /\ open_qty(order') = order'.order_qty - order'.exec_qty
        /\ open_qty(order') > 0]_vars

(* C6: after the chain ordered, modify(orderPrice=p2), modified, cancel,
   canceled on a freshly created order, order_status is 'cancelled' and
   order_price is p2. *)
ChainEndsCancelled ==
  (/\ HistOps(hist) = <<"ordered", "modify", "modified", "cancel", "canceled">>
   /\ DOMAIN hist[2].kw = {"orderPrice"}
   /\ hist[3].kw = EmptyDict)
  => /\ order.order_status = "cancelled"
     /\ order.order_price = hist[2].kw.orderPrice

(* C7: after an accepted order receives a partial fill, exec_qty is the
   filled amount and open_qty is order_qty - exec_qty; after further fills
   that bring exec_qty up to order_qty, open_qty is 0 and order_status is
   'filled'. *)
FillsEndFilled ==
  /\ (/\ lastCall.op = "fill" /\ ok /\ pre.order_status = "open"
      /\ pre.exec_qty = 0 /\ lastCall.kw.execQty < pre.order_qty)
     => /\ order.exec_qty = lastCall.kw.execQty
        /\ open_qty(order) = order.order_qty - order.exec_qty
  /\ (/\ lastCall.op = "fill" /\ ok /\ pre.order_status = "open"
      /\ pre.exec_qty > 0
      /\ pre.exec_qty + lastCall.kw.execQty = pre.order_qty)
     => /\ open_qty(order) = 0
        /\ order.order_status = "filled"

(* C8: a modify carrying a quantity delta d changes order_qty by
   max(d, -open_qty), so a decrease never takes order_qty below exec_qty; a
   price delta is added to order_price; an absolute quantity q sets
   order_qty to max(q, 0); the following modified keeps these values. *)
ModifyAppliesChange ==
  /\ (lastCall.op = "modify" /\ ok)
     => LET kw == lastCall.kw
        IN /\ "orderQty" \in DOMAIN kw => order.order_qty = Max(kw.orderQty, 0)
           /\ ("dOrderQty" \in DOMAIN kw /\ "orderQty" \notin DOMAIN kw)
              => /\ order.order_qty
                      = pre.order_qty + Max(kw.dOrderQty, -open_qty(pre))
                 /\ pre.order_status # "closed"
                      => order.order_qty >= order.exec_qty
                 /\ pre.order_qty >= pre.exec_qty
                      => order.order_qty >= order.exec_qty
           /\ "orderPrice" \in DOMAIN kw => order.order_price = kw.orderPrice
           /\ ("dOrderPrice" \in DOMAIN kw /\ "orderPrice" \notin DOMAIN kw)
              => order.order_price = pre.order_price + kw.dOrderPrice
  /\ (lastCall.op = "modified" /\ ok /\ lastCall.kw = EmptyDict)
     => /\ order.order_qty = pre.order_qty
        /\ order.order_price = pre.order_price

WitnessModifyClamped ==
  /\ lastCall.op = "modify" /\ ok /\ pre.order_status = "open"
  /\ DOMAIN lastCall.kw = {"dOrderQty"}
  /\ pre.exec_qty > 0
  /\ lastCall.kw.dOrderQty < -open_qty(pre)
  /\ order.order_qty = pre.exec_qty
  /\ order.order_qty < pre.order_qty

(* C10: while a modification is pending, old<attr> returns the value of the
   oldest not yet acknowledged version, prev<attr> the version before the
   current one, and the plain attribute the newly requested value. *)
PendingModifyAccessors ==
  (lastCall.op = "modify" /\ ok /\ Len(pre.queue) = 1)
  => /\ \A a \in _modify_attributes :
          /\ __getattr__(order, "old", a).ok
          /\ __getattr__(order, "old", a).val = pre[a]
          /\ __getattr__(order, "prev", a).ok
          /\ __getattr__(order, "prev", a).val = pre[a]
     /\ "orderPrice" \in DOMAIN lastCall.kw
          => order.order_price = lastCall.kw.orderPrice

(* C9: for every lifecycle transition invoked through a checker, passing an
   argument under its snake_case key gives the same validation outcome and
   the same resulting order state as passing it under the camelCase key. *)
SnakeCaseSameAsCamelCase ==
  fcall.op # "init"
  => /\ ftwin.exc = fx.exc
     /\ ftwin.o = fx.o

(* ========================= FIX tag=value codec ========================= *)
(* A Python str is the sequence of its character codes (all text here is
   ASCII, so ord(c) is also the byte that encode() yields). A message dict
   is a function from tags to values: the source keys it by the decimal
   string of the tag and orders by int(key); FixMessage keys it by the int. *)
SOH == 1

Printable ==
  <<"-", ".", "/", "0", "1", "2", "3", "4", "5", "6", "7", "8", "9", ":", ";",
    "<", "=", ">", "?", "@", "A", "B", "C", "D", "E", "F", "G", "H", "I", "J",
    "K", "L", "M", "N", "O", "P", "Q", "R", "S", "T", "U", "V", "W", "X", "Y",
    "Z">>

(* ord(c): "-" is 45 and the table runs on to "Z", 90; "|" is 124 *)
ord(c) ==
  IF c = "|" THEN 124
  ELSE 44 + CHOOSE i \in 1..Len(Printable) : Printable[i] = c

(* the str spelled by a tuple of characters *)
Text(chars) == [i \in 1..Len(chars) |-> ord(chars[i])]

(* str() of a natural number *)
RECURSIVE str(_)
str(n) == IF n < 10 THEN <<48 + n>> ELSE str(n \div 10) \o <<48 + (n % 10)>>

(* the format spec 03d, for a number below 1000 *)
Format03d(n) ==
  <<48 + ((n \div 100) % 10), 48 + ((n \div 10) % 10), 48 + (n % 10)>>

(* sum(ord(c) for c in s), sum(s.encode("ascii")) *)
RECURSIVE sum(_)
sum(s) == IF s = << >> THEN 0 ELSE s[1] + sum(Tail(s))

(* sorted() of a set of tags *)
RECURSIVE sorted(_)
sorted(S) ==
  IF S = {} THEN << >>
  ELSE LET m == CHOOSE x \in S : \A y \in S : x <= y
       IN <<m>> \o sorted(S \ {m})

(* sep.join(parts) *)
RECURSIVE join(_, _)
join(sep, parts) ==
  IF parts = << >> THEN << >>
  ELSE IF Len(parts) = 1 THEN parts[1]
  ELSE parts[1] \o sep \o join(sep, Tail(parts))

(* s.split(sep) for a one-character sep *)
RECURSIVE split(_, _)
split(s, sep) ==
  IF \A i \in 1..Len(s) : s[i] # sep THEN <<s>>
  ELSE LET i == CHOOSE j \in 1..Len(s) :
                  s[j] = sep /\ \A k \in 1..(j - 1) : s[k] # sep
       IN <<SubSeq(s, 1, i - 1)>> \o split(SubSeq(s, i + 1, Len(s)), sep)

(* the f-string "{k}={v}" *)
TagValue(k, v) == str(k) \o <<61>> \o v

(* the "k=v" parts of the tags other than 8, 9 and 10, in numeric order *)
SortedParts(message) ==
  LET tags == sorted(DOMAIN message \ {8, 9, 10})
  IN [i \in 1..Len(tags) |-> TagValue(tags[i], message[tags[i]])]

(* the checksum formatted without the zero padding *)
_calculate_checksum_unpadded(fix_str) == str(sum(fix_str) % 256)

(* FixClient._calculate_checksum *)
_calculate_checksum(fix_str) == Format03d(sum(fix_str) % 256)

(* FixClient._dict_to_fix: [exc, frame] *)
FixClient_dict_to_fix(message) ==
  IF 8 \notin DOMAIN message THEN [exc |-> "KeyError", frame |-> << >>]
  ELSE
    LET parts == <<TagValue(8, message[8])>> \o SortedParts(message)
        body == join(<<SOH>>, parts)
        body_length == Len(body)
        fix_str == TagValue(8, message[8]) \o <<SOH>>
                     \o TagValue(9, str(body_length)) \o <<SOH>>
                     \o body \o <<SOH>>
    IN [exc |-> NoExc,
        frame |-> fix_str \o TagValue(10, _calculate_checksum(fix_str))
                    \o <<SOH>>]

(* AsyncFixClient._dict_to_fix *)
AsyncFixClient_dict_to_fix(message) ==
  IF 8 \notin DOMAIN message THEN [exc |-> "KeyError", frame |-> << >>]
  ELSE
    LET parts == <<TagValue(8, message[8])>> \o SortedParts(message)
        body == join(<<SOH>>, parts) \o <<SOH>>
        body_length == Len(body)
        fix_msg == TagValue(8, message[8]) \o <<SOH>>
                     \o TagValue(9, str(body_length)) \o <<SOH>>
                     \o join(<<SOH>>, Tail(parts)) \o <<SOH>>
        checksum == sum(fix_msg) % 256
    IN [exc |-> NoExc,
        frame |-> fix_msg \o TagValue(10, Format03d(checksum)) \o <<SOH>>]

(* FixCodec.dict_to_fix *)
FixCodec_dict_to_fix(message) ==
  IF 8 \notin DOMAIN message THEN [exc |-> "KeyError", frame |-> << >>]
  ELSE
    LET parts == <<TagValue(8, message[8])>> \o SortedParts(message)
        body == join(<<SOH>>, parts) \o <<SOH>>
        body_length == Len(body)
        fix_msg == TagValue(8, message[8]) \o <<SOH>>
                     \o TagValue(9, str(body_length)) \o <<SOH>>
                     \o join(<<SOH>>, Tail(parts)) \o <<SOH>>
        checksum == sum(fix_msg) % 256
    IN [exc |-> NoExc,
        frame |-> fix_msg \o TagValue(10, Format03d(checksum)) \o <<SOH>>]

(* FixVersion.FIX44.value *)
FIX44 == Text(<<"F", "I", "X", ".", "4", ".", "4">>)

(* FixMessage._build_fix_string, which delimits with "|": the fields lose
   9 and 10 and are joined in sorted order, tag 8 (set by __init__) among
   them, behind a header that spells 8 and 9 again *)
FixMessage_build_fix_string(fields) ==
  LET tags == sorted(DOMAIN fields \ {9, 10})
      fix_parts == [i \in 1..Len(tags) |-> TagValue(tags[i], fields[tags[i]])]
      body == join(<<ord("|")>>, fix_parts) \o <<ord("|")>>
      body_length == Len(body)
      fix_msg == TagValue(8, FIX44) \o <<ord("|")>>
                   \o TagValue(9, str(body_length)) \o <<ord("|")>> \o body
      checksum == sum(fix_msg) % 256
  IN [exc |-> NoExc,
      frame |-> fix_msg \o TagValue(10, Format03d(checksum)) \o <<ord("|")>>]

(* the split taken at the last "=" of the pair *)
SplitPair_at_last(pair) ==
  LET i == CHOOSE j \in 1..Len(pair) :
             pair[j] = 61 /\ \A k \in (j + 1)..Len(pair) : pair[k] # 61
  IN [key |-> SubSeq(pair, 1, i - 1), value |-> SubSeq(pair, i + 1, Len(pair))]

(* pair.split("=", 1) of a pair that holds "=": [key, value] *)
SplitPair(pair) ==
  LET i == CHOOSE j \in 1..Len(pair) :
             pair[j] = 61 /\ \A k \in 1..(j - 1) : pair[k] # 61
  IN [key |-> SubSeq(pair, 1, i - 1), value |-> SubSeq(pair, i + 1, Len(pair))]

(* result[key] = value for every pair that holds "=", a later pair
   overwriting an earlier one with the same key *)
RECURSIVE PairsToDict(_, _)
PairsToDict(pairs, result) ==
  IF pairs = << >> THEN result
  ELSE IF \A j \in 1..Len(pairs[1]) : pairs[1][j] # 61
  THEN PairsToDict(Tail(pairs), result)
  ELSE LET kv == SplitPair(pairs[1])
       IN PairsToDict(Tail(pairs),
            [x \in DOMAIN result \cup {kv.key} |->
               IF x = kv.key THEN kv.value ELSE result[x]])

(* s[:-1] if s.endswith(SOH) *)
StripSOH(fix_str) ==
  IF fix_str # << >> /\ fix_str[Len(fix_str)] = SOH
  THEN SubSeq(fix_str, 1, Len(fix_str) - 1) ELSE fix_str

(* FixClient._fix_to_dict: [exc, dict], the dict keyed by the tag's text *)
FixClient_fix_to_dict(fix_str) ==
  [exc |-> NoExc,
   dict |-> PairsToDict(split(StripSOH(fix_str), SOH), << >>)]

(* AsyncFixClient._fix_to_dict *)
AsyncFixClient_fix_to_dict(fix_str) ==
  [exc |-> NoExc,
   dict |-> PairsToDict(split(StripSOH(fix_str), SOH), << >>)]

(* FixCodec.fix_to_dict *)
FixCodec_fix_to_dict(fix_str) ==
  [exc |-> NoExc,
   dict |-> PairsToDict(split(StripSOH(fix_str), SOH), << >>)]

(* ------------------------- messages to encode -------------------------- *)
CodecHeartbeat ==
  (8 :> FIX44) @@ (35 :> Text(<<"0">>)) @@ (34 :> Text(<<"1">>))
    @@ (49 :> Text(<<"C">>)) @@ (56 :> Text(<<"S">>))

CodecMessages ==
  { CodecHeartbeat,
    (* a TestRequest: tag 112 sorts after 56 as a number *)
    CodecHeartbeat @@ (112 :> Text(<<"T">>)),
    (* a dict that already holds 9 and 10, as on send_message's second pass *)
    (9 :> Text(<<"5">>)) @@ (10 :> Text(<<"0", "0", "0">>))
      @@ (56 :> Text(<<"S", "V">>)) @@ CodecHeartbeat,
    (* a NewOrderSingle *)
    (8 :> FIX44) @@ (35 :> Text(<<"D">>)) @@ (11 :> Text(<<"A">>))
      @@ (55 :> Text(<<"B">>)) @@ (54 :> Text(<<"1">>))
      @@ (38 :> Text(<<"1", "0", "0">>)),
    (* a value that holds "=" *)
    (8 :> FIX44) @@ (35 :> Text(<<"D">>)) @@ (58 :> Text(<<"A", "=", "B">>)),
    (* no fields but BeginString *)
    (8 :> FIX44),
    (* no BeginString *)
    (35 :> Text(<<"0">>)) @@ (34 :> Text(<<"1">>)) }

InitCodec ==
  /\ AuxIdleBut("")
  /\ MainIdle
  /\ FixIdle
  /\ cli = FixClient__init__
  /\ ahd = AHDClient__init__
  /\ codec \in {[CodecRest EXCEPT !.msg = m] : m \in CodecMessages}

(* one encoder applied to the message *)
Encode(name, r) ==
  /\ codec' = [codec EXCEPT !.encoder = name, !.frame = r.frame, !.exc = r.exc]
  /\ UNCHANGED <<mainvars, fixvars, cli, ahd, auxvars, auxvars2>>

EncodeFixClient ==
  /\ codec.encoder = "none"
  /\ Encode("FixClient", FixClient_dict_to_fix(codec.msg))

EncodeAsyncFixClient ==
  /\ codec.encoder = "none"
  /\ Encode("AsyncFixClient", AsyncFixClient_dict_to_fix(codec.msg))

EncodeFixCodec ==
  /\ codec.encoder = "none"
  /\ Encode("FixCodec", FixCodec_dict_to_fix(codec.msg))

(* a FixMessage always holds tag 8: __init__ sets it *)
EncodeFixMessage ==
  /\ codec.encoder = "none"
  /\ 8 \in DOMAIN codec.msg
  /\ Encode("FixMessage", FixMessage_build_fix_string(codec.msg))

(* what the wire or a faulty peer may do to a frame before it is decoded *)
Intact ==
  /\ codec.encoder \in {"FixClient", "AsyncFixClient", "FixCodec"}
  /\ codec.exc = NoExc
  /\ codec.damage = "none"
  /\ codec.decoder = "none"

Damage(kind, frame) ==
  /\ codec' = [codec EXCEPT !.damage = kind, !.frame = frame]
  /\ UNCHANGED <<mainvars, fixvars, cli, ahd, auxvars, auxvars2>>

(* the frame arrives without its 10=NNN<SOH> *)
DropCheckSum ==
  /\ Intact
  /\ Damage("no checksum", SubSeq(codec.frame, 1, Len(codec.frame) - 7))

(* the last digit of the checksum arrives changed *)
AlterCheckSum ==
  /\ Intact
  /\ Damage("bad checksum",
            [codec.frame EXCEPT ![Len(codec.frame) - 1] = 48 + ((@ - 47) % 10)])

(* a byte of tag 9's value arrives changed *)
AlterBody ==
  /\ Intact
  /\ Damage("bad body", [codec.frame EXCEPT ![13] = 48 + ((@ - 47) % 10)])

Undecoded ==
  /\ codec.encoder \in {"FixClient", "AsyncFixClient", "FixCodec"}
  /\ codec.exc = NoExc
  /\ codec.decoder = "none"

Decode(name, r) ==
  /\ codec' = [codec EXCEPT !.decoder = name, !.decoded = r.dict,
                            !.decode_exc = r.exc]
  /\ UNCHANGED <<mainvars, fixvars, cli, ahd, auxvars, auxvars2>>

DecodeFixClient ==
  /\ Undecoded
  /\ Decode("FixClient", FixClient_fix_to_dict(codec.frame))

DecodeAsyncFixClient ==
  /\ Undecoded
  /\ Decode("AsyncFixClient", AsyncFixClient_fix_to_dict(codec.frame))

DecodeFixCodec ==
  /\ Undecoded
  /\ Decode("FixCodec", FixCodec_fix_to_dict(codec.frame))

NextCodec ==
  \/ EncodeFixClient
  \/ EncodeAsyncFixClient
  \/ EncodeFixCodec
  \/ EncodeFixMessage
  \/ DropCheckSum
  \/ AlterCheckSum
  \/ AlterBody
  \/ DecodeFixClient
  \/ DecodeAsyncFixClient
  \/ DecodeFixCodec

SpecCodec == InitCodec /\ [][NextCodec]_vars

(* ---------------------------- codec claims ----------------------------- *)
(* int() of a string of digits *)
RECURSIVE int(_)
int(s) ==
  IF s = << >> THEN 0
  ELSE 10 * int(SubSeq(s, 1, Len(s) - 1)) + (s[Len(s)] - 48)

(* a frame as one of the three dict encoders emitted it *)
Emitted ==
  /\ codec.encoder \in {"FixClient", "AsyncFixClient", "FixCodec"}
  /\ codec.exc = NoExc
  /\ codec.damage = "none"

(* the delimiter the encoder used *)
Delimiter == IF codec.encoder = "FixMessage" THEN ord("|") ELSE SOH

(* the fields of the frame in codec, in order, each without its delimiter *)
FrameFields ==
  split(SubSeq(codec.frame, 1, Len(codec.frame) - 1), Delimiter)

(* the tags of the fields that hold "=", in the order of the frame *)
FrameTags ==
  LET f == SelectSeq(FrameFields, LAMBDA x : \E j \in 1..Len(x) : x[j] = 61)
  IN [i \in 1..Len(f) |-> int(SplitPair(f[i]).key)]

(* C17: in every frame FixClient._dict_to_fix, AsyncFixClient._dict_to_fix
   and FixCodec.dict_to_fix emit, the value of tag 9 is the number of bytes
   between the end of the 9=<n><SOH> field and the start of 10=. *)
BodyLengthIsByteCount ==
  Emitted
  => LET f == FrameFields
     IN int(SplitPair(f[2]).value)
          = Len(codec.frame) - (Len(f[1]) + 1) - (Len(f[2]) + 1) - 7

(* C18: every frame an encoder emits begins with 8=, ends with
   10=NNN<SOH>, and NNN is the three-digit, zero-padded sum modulo 256 of
   all the bytes before 10=. *)
FrameEndsWithCheckSum ==
  Emitted
  => LET fr == codec.frame
         n == Len(fr)
         NNN == SubSeq(fr, n - 3, n - 1)
     IN /\ n >= 9
        /\ SubSeq(fr, 1, 2) = <<ord("8"), ord("=")>>
        /\ SubSeq(fr, n - 7, n - 4) = <<SOH, ord("1"), ord("0"), ord("=")>>
        /\ fr[n] = SOH
        /\ \A i \in 1..3 : NNN[i] \in 48..57
        /\ int(NNN) = sum(SubSeq(fr, 1, n - 7)) % 256

WitnessPaddedCheckSum ==
  /\ Emitted
  /\ codec.encoder = "FixClient"
  /\ 10 \in DOMAIN codec.msg
  /\ codec.frame[Len(codec.frame) - 3] = ord("0")
  /\ sum(SubSeq(codec.frame, 1, Len(codec.frame) - 7)) > 256

(* C19: in an encoded frame each tag occurs exactly once, tag 8 is the
   first field, tag 9 the second, tag 10 the last, and the other tags lie
   in between in ascending numeric order. *)
TagsOnceInOrder ==
  (codec.encoder # "none" /\ codec.exc = NoExc /\ codec.damage = "none")
  => LET t == FrameTags
         n == Len(t)
     IN /\ n >= 3
        /\ t[1] = 8 /\ t[2] = 9 /\ t[n] = 10
        /\ \A i, j \in 1..n : i < j => t[i] # t[j]
        /\ \A i, j \in 3..(n - 1) : i < j => t[i] < t[j]

(* C20: decoding a frame that has no 10= field, or whose 10= value differs
   from the checksum recomputed over the preceding bytes, is rejected with
   an error instead of returning a tag map. *)
DecodeRejectsBadCheckSum ==
  (/\ codec.decoder # "none"
   /\ LET fr == codec.frame
          n == Len(fr)
      IN \/ n < 7
         \/ SubSeq(fr, n - 6, n - 4) # <<ord("1"), ord("0"), ord("=")>>
         \/ int(SubSeq(fr, n - 3, n - 1)) # sum(SubSeq(fr, 1, n - 7)) % 256)
  => codec.decode_exc # NoExc

(* a frame decoded as it was emitted, by the decoder of the class that
   encoded it *)
RoundTripped ==
  /\ Emitted
  /\ codec.decoder = codec.encoder

(* C21: decode(encode(m)) holds every tag of m with its original value,
   and tags 9 and 10 with the body length and the checksum that the
   encoder emitted, for FixClient and for AsyncFixClient. *)
DecodeOfEncode ==
  RoundTripped
  => LET d == codec.decoded
         fr == codec.frame
     IN /\ DOMAIN d = {str(t) : t \in DOMAIN codec.msg \cup {9, 10}}
        /\ \A t \in DOMAIN codec.msg \ {9, 10} : d[str(t)] = codec.msg[t]
        /\ d[str(9)] = SubSeq(FrameFields[2], 3, Len(FrameFields[2]))
        /\ d[str(10)] = SubSeq(fr, Len(fr) - 3, Len(fr) - 1)

(* C21 witness: the message whose value holds "=" has made the round trip
   through FixClient *)
WitnessRoundTripWithEquals ==
  /\ RoundTripped
  /\ codec.decoder = "FixClient"
  /\ 58 \in DOMAIN codec.msg
  /\ codec.decoded[str(58)] = Text(<<"A", "=", "B">>)

(* ===================== FixClient session (fix_cli.py) ================== *)
(* The state is the record cli: FixClient's fields, buffer (the receive
   loop's local), placed (for every frame put on send_queue, its MsgType,
   MsgSeqNum and TestReqID as the frame itself spells them) and last_recv
   (the bytes of the last recv() and the length of placed before it). *)
sender_comp_id == Text(<<"C">>)
target_comp_id == Text(<<"S">>)
heartbeat_interval == Text(<<"3", "0">>)

(* datetime.utcnow() formatted: some text without SOH or "=" *)
SendingTime == Text(<<"0", "0", ":", "0", "0">>)

(* the MsgType values *)
HEARTBEAT == Text(<<"0">>)
TEST_REQUEST == Text(<<"1">>)
LOGOUT == Text(<<"5">>)
LOGON == Text(<<"A">>)
NEW_ORDER_SINGLE == Text(<<"D">>)

(* None where a str is expected: a sequence that is no text *)
NoText == <<-1>>

(* dict.get on a decoded message, whose keys are the tags' text *)
TagOf(d, tag) == IF str(tag) \in DOMAIN d THEN d[str(tag)] ELSE NoText

(* FixClient._create_message: MsgSeqNum is read, not advanced *)
_create_message(c, msg_type) ==
  (8 :> FIX44) @@ (35 :> msg_type) @@ (49 :> sender_comp_id)
    @@ (56 :> target_comp_id) @@ (34 :> str(c.out_seq_num))
    @@ (52 :> SendingTime)

(* message[tag] = value unless the tag is present *)
SetDefault(message, tag, value) ==
  IF tag \in DOMAIN message THEN message ELSE message @@ (tag :> value)

(* the header fields send_message fills in when absent *)
WithHeader(c, message) ==
  SetDefault(SetDefault(SetDefault(SetDefault(SetDefault(message,
    8, FIX44), 49, sender_comp_id), 56, target_comp_id),
    34, str(c.out_seq_num)), 52, SendingTime)

(* what put() of a frame leaves on send_queue and in placed *)
Put(c, fix_message) ==
  LET d == FixClient_fix_to_dict(fix_message).dict
  IN [c EXCEPT !.send_queue = Append(@, fix_message),
               !.placed = Append(@, [t |-> TagOf(d, 35),
                                     seq |-> int(TagOf(d, 34)),
                                     test_req_id |-> TagOf(d, 112)])]

(* FixClient.send_message: the first _dict_to_fix only yields the checksum
   stored under "10", which the second _dict_to_fix leaves out and
   recomputes *)
send_message(c, message) ==
  LET m == WithHeader(c, message)
      checksum == _calculate_checksum(FixClient_dict_to_fix(m).frame)
      m10 == (10 :> checksum) @@ m
  IN Put([c EXCEPT !.out_seq_num = IF 34 \in DOMAIN message THEN @ ELSE @ + 1],
         FixClient_dict_to_fix(m10).frame)

(* FixClient.logon, with no username and no password *)
logon(c) ==
  send_message(c, _create_message(c, LOGON) @@ (98 :> Text(<<"0">>))
                    @@ (108 :> heartbeat_interval))

logout(c) == send_message(c, _create_message(c, LOGOUT))

send_heartbeat(c) == send_message(c, _create_message(c, HEARTBEAT))

send_test_request(c, test_req_id) ==
  send_message(c, (112 :> test_req_id) @@ _create_message(c, TEST_REQUEST))

(* FixClient.disconnect *)
disconnect(c) ==
  LET c1 == IF c.connected THEN logout(c) ELSE c
  IN [c1 EXCEPT !.stop_event = TRUE, !.connected = FALSE,
                !.send_queue = << >>, !.receive_queue = << >>]

(* FixClient._handle_test_request *)
_handle_test_request(c, message) ==
  IF TagOf(message, 112) \notin {NoText, << >>}
  THEN send_message(c, (112 :> TagOf(message, 112))
                         @@ _create_message(c, HEARTBEAT))
  ELSE c

(* FixClient._handle_message: [c, exc]; int() of a non-number raises
   before any handler runs *)
_handle_message(c, message) ==
  LET seq == TagOf(message, 34)
      bad == /\ seq # NoText
             /\ (seq = << >> \/ \E i \in 1..Len(seq) : seq[i] \notin 48..57)
      c1 == IF seq = NoText THEN c ELSE [c EXCEPT !.in_seq_num = int(seq) + 1]
      msg_type == TagOf(message, 35)
  IN IF bad THEN [c |-> c, exc |-> "ValueError"]
     ELSE [c |-> CASE msg_type = TEST_REQUEST -> _handle_test_request(c1, message)
                   [] msg_type = LOGOUT -> disconnect(c1)
                   [] OTHER -> c1,
           exc |-> NoExc]

(* the inner loop of FixClient._receive_loop: while SOH is in the buffer,
   cut the buffer after its first SOH, decode and handle the piece, and
   put it on receive_queue unless handling raised *)
RECURSIVE ProcessBuffer(_, _)
ProcessBuffer(c, buffer) ==
  IF \A i \in 1..Len(buffer) : buffer[i] # SOH
  THEN [c EXCEPT !.buffer = buffer]
  ELSE LET i == CHOOSE j \in 1..Len(buffer) :
                  buffer[j] = SOH /\ \A k \in 1..(j - 1) : buffer[k] # SOH
           message == SubSeq(buffer, 1, i)
           h == _handle_message(c, FixClient_fix_to_dict(message).dict)
       IN ProcessBuffer(
            IF h.exc # NoExc THEN h.c
            ELSE [h.c EXCEPT !.receive_queue = Append(@, message)],
            SubSeq(buffer, i + 1, Len(buffer)))

(* the frames the peer sends, encoded as the server of this repository
   encodes them *)
PeerHeader ==
  (8 :> FIX44) @@ (49 :> target_comp_id) @@ (56 :> sender_comp_id)
    @@ (34 :> Text(<<"2">>))

TestReqID == Text(<<"X">>)

TestRequestFrame ==
  FixCodec_dict_to_fix((35 :> TEST_REQUEST) @@ (112 :> TestReqID)
                         @@ PeerHeader).frame

PeerFrames ==
  { TestRequestFrame,
    FixCodec_dict_to_fix((35 :> HEARTBEAT) @@ PeerHeader).frame,
    FixCodec_dict_to_fix((35 :> LOGOUT) @@ PeerHeader).frame }

(* an application message handed to send_message without a MsgSeqNum *)
AppMessage ==
  (35 :> NEW_ORDER_SINGLE) @@ (11 :> Text(<<"A">>)) @@ (55 :> Text(<<"B">>))
    @@ (54 :> Text(<<"1">>)) @@ (38 :> Text(<<"1", "0", "0">>))

InitCli ==
  /\ AuxIdleBut("")
  /\ MainIdle
  /\ FixIdle
  /\ codec = CodecRest
  /\ ahd = AHDClient__init__
  /\ cli = FixClient__init__

CliStep(op, c) ==
  /\ cli' = [c EXCEPT !.n = @ + 1, !.last_op = op]
  /\ UNCHANGED <<mainvars, fixvars, codec, ahd, auxvars, auxvars2>>

(* FixClient.connect, once per session: the socket, the threads, logon() *)
Connect ==
  /\ cli.n = 0
  /\ CliStep("connect", logon([cli EXCEPT !.connected = TRUE,
                                          !.stop_event = FALSE]))

Disconnect ==
  /\ cli.n < MaxCliOps
  /\ cli.connected
  /\ CliStep("disconnect", disconnect(cli))

(* _send_loop finds the heartbeat interval elapsed *)
HeartbeatDue ==
  /\ cli.n < MaxCliOps
  /\ cli.connected /\ ~cli.stop_event
  /\ CliStep("send_heartbeat", send_heartbeat(cli))

(* _send_loop takes a frame from send_queue and writes it to the socket *)
SendLoopGet ==
  /\ cli.n < MaxCliOps
  /\ cli.connected /\ ~cli.stop_event
  /\ cli.send_queue # << >>
  /\ CliStep("sendall", [cli EXCEPT !.send_queue = Tail(@)])

SendTestRequest ==
  /\ cli.n < MaxCliOps
  /\ cli.connected
  /\ CliStep("send_test_request", send_test_request(cli, Text(<<"Q">>)))

SendApp ==
  /\ cli.n < MaxCliOps
  /\ cli.connected
  /\ CliStep("send_message", send_message(cli, AppMessage))

(* _receive_loop: recv() returns the bytes of one frame of the peer *)
Recv ==
  \E data \in PeerFrames :
    /\ cli.n < MaxCliOps
    /\ cli.connected /\ ~cli.stop_event
    /\ CliStep("recv",
         ProcessBuffer([cli EXCEPT !.last_recv =
                          [data |-> data, queued_before |-> Len(cli.placed)]],
                       cli.buffer \o data))

NextCli ==
  \/ Connect
  \/ Disconnect
  \/ HeartbeatDue
  \/ SendLoopGet
  \/ SendTestRequest
  \/ SendApp
  \/ Recv

SpecCli == InitCli /\ [][NextCli]_vars

(* C11: within one FixClient session the MsgSeqNum values of the frames
   placed on the send queue, logon, heartbeats, test-request replies,
   logout and application messages alike, are strictly increasing,
   starting at 1. *)
MsgSeqNumStrictlyIncreasing ==
  /\ cli.placed # << >> => cli.placed[1].seq = 1
  /\ \A i, j \in 1..Len(cli.placed) :
       i < j => cli.placed[i].seq < cli.placed[j].seq

(* C16: when a TestRequest frame carrying 112=X arrives on the socket, the
   client enqueues exactly one Heartbeat carrying 112=X, and does so before
   it handles the next received frame. *)
TestRequestAnswered ==
  (cli.last_op = "recv" /\ cli.last_recv.data = TestRequestFrame)
  => /\ Len(cli.placed) = cli.last_recv.queued_before + 1
     /\ cli.placed[Len(cli.placed)].t = HEARTBEAT
     /\ cli.placed[Len(cli.placed)].test_req_id = TestReqID

(* C32: each complete frame FixClient receives stands on the receive queue
   as one message holding all of the frame's tags, so that receive_message
   returns a map with the frame's MsgType (35) together with its other
   fields. *)
FrameQueuedAsOneMessage ==
  \A i \in 1..Len(cli.receive_queue) :
    /\ cli.receive_queue[i] \in PeerFrames
    /\ {"8", "35", "10"} \subseteq
         DOMAIN FixClient_fix_to_dict(cli.receive_queue[i]).dict

(* ==================== AHDClient connection (ahd_cli.py) ================ *)
(* The state is the record ahd: AHDClient's counters after start(), the
   send queue, a clock counting the seconds of the sender's waits (now,
   last_send), prepared (every frame _prepare_msg returned, in order), wire
   (every frame the sender wrote to the socket) and last_op.
   A message is [layers, SeqNo, OrderEntrySeqNo, InternalProcessing]: the
   set of its layers and three fields a caller may preset; NoInt and NoText
   stand for None. _prepare_msg runs
   to completion in the caller's thread. *)
NoInt == -1

(* The three lists _prepare_msg consults are named in ahd_cli.py but
   defined nowhere under src/: they hold the layers that must sit under
   the given middle layer, as the bindings of ahd_msg.py give them. *)
AdminCommonOULayers == {"OpStart", "OpEnd"}
OrderCommonOLayers == {"NewOrder", "CancelOrderByInternal"}
ESPCommonLayers ==
  {"LoginRequest", "PreLogoutRequest", "LogoutRequest", "Heartbeat",
   "OrderCommonO", "OrderCommonQ", "AdminCommonOU", "AdminCommonQU"}

(* base() / msg when base is missing and one of its layers is present *)
Wrap(layers, base, below) ==
  IF base \notin layers /\ layers \cap below # {}
  THEN layers \cup {base} ELSE layers

(* s.rstrip("0123456789") *)
RECURSIVE rstrip_digits(_)
rstrip_digits(s) ==
  IF s # << >> /\ s[Len(s)] \in 48..57
  THEN rstrip_digits(SubSeq(s, 1, Len(s) - 1)) ELSE s

(* the decimal digits of n + 1, given the decimal digits of n *)
RECURSIVE Successor(_)
Successor(digits) ==
  IF digits = << >> THEN <<49>>
  ELSE IF digits[Len(digits)] = 57
  THEN Successor(SubSeq(digits, 1, Len(digits) - 1)) \o <<48>>
  ELSE SubSeq(digits, 1, Len(digits) - 1) \o <<digits[Len(digits)] + 1>>

(* the digits of int(s): no leading zero, "0" for zero *)
RECURSIVE Canonical(_)
Canonical(s) ==
  IF Len(s) > 1 /\ s[1] = 48 THEN Canonical(Tail(s)) ELSE s

(* the format spec 0{width}d applied to the number with the given digits *)
ZeroPadded(digits, width) ==
  IF Len(digits) >= width THEN digits
  ELSE [i \in 1..(width - Len(digits)) |-> 48] \o digits

(* the next ID without the zero padding *)
_generate_next_internal_unpadded(last_sent_internal) ==
  LET prefix == rstrip_digits(last_sent_internal)
      numeric_part == SubSeq(last_sent_internal, Len(prefix) + 1,
                             Len(last_sent_internal))
  IN prefix \o Successor(Canonical(numeric_part))

(* AHDClient._generate_next_internal; int("") raises ValueError when the
   ID has no numeric tail, which no ID of the model lacks *)
_generate_next_internal(last_sent_internal) ==
  LET prefix == rstrip_digits(last_sent_internal)
      numeric_part == SubSeq(last_sent_internal, Len(prefix) + 1,
                             Len(last_sent_internal))
  IN prefix \o ZeroPadded(Successor(Canonical(numeric_part)),
                          20 - Len(prefix))

(* NewOrder in msg and msg[NewOrder].InternalProcessing is None *)
NeedsInternal(layers, msg) ==
  "NewOrder" \in layers /\ msg.InternalProcessing = NoText

(* the InternalProcessing of the prepared frame *)
InternalProcessing(a, layers, msg) ==
  IF NeedsInternal(layers, msg)
  THEN _generate_next_internal(a.last_sent_internal)
  ELSE msg.InternalProcessing

(* the variant of _prepare_msg in which a query advances the counter too *)
_prepare_msg_query_advances(a, msg) ==
  LET layers == Wrap(Wrap(Wrap(msg.layers,
                   "AdminCommonOU", AdminCommonOULayers),
                   "OrderCommonO", OrderCommonOLayers),
                   "ESPCommon", ESPCommonLayers)
      SeqNo == IF msg.SeqNo = NoInt THEN a.last_sent_seq_no + 1 ELSE msg.SeqNo
      ordering == layers \cap {"OrderCommonO", "OrderCommonQ"} # {}
      OrderEntrySeqNo ==
        IF ~ordering THEN NoInt
        ELSE IF msg.OrderEntrySeqNo = NoInt
        THEN a.last_sent_order_entry_seq_no + 1 ELSE msg.OrderEntrySeqNo
      frame == [layers |-> layers, SeqNo |-> SeqNo,
                ARMSN |-> a.last_rcvd_seq_no,
                OrderEntrySeqNo |-> OrderEntrySeqNo,
                InternalProcessing |-> InternalProcessing(a, layers, msg)]
  IN [frame |-> frame,
      a |-> [a EXCEPT !.last_sent_seq_no = SeqNo,
                      !.last_sent_order_entry_seq_no =
                         IF ordering THEN OrderEntrySeqNo ELSE @,
                      !.last_sent_internal =
                         IF NeedsInternal(layers, msg)
                         THEN frame.InternalProcessing ELSE @,
                      !.generated =
                         IF NeedsInternal(layers, msg)
                         THEN Append(@, frame.InternalProcessing) ELSE @,
                      !.prepared = Append(@, frame)]]

(* AHDClient._prepare_msg: [frame, a] *)
_prepare_msg(a, msg) ==
  LET layers == Wrap(Wrap(Wrap(msg.layers,
                   "AdminCommonOU", AdminCommonOULayers),
                   "OrderCommonO", OrderCommonOLayers),
                   "ESPCommon", ESPCommonLayers)
      SeqNo == IF msg.SeqNo = NoInt THEN a.last_sent_seq_no + 1 ELSE msg.SeqNo
      ordering == layers \cap {"OrderCommonO", "OrderCommonQ"} # {}
      OrderEntrySeqNo ==
        IF ~ordering THEN NoInt
        ELSE IF msg.OrderEntrySeqNo = NoInt
        THEN a.last_sent_order_entry_seq_no + 1 ELSE msg.OrderEntrySeqNo
      frame == [layers |-> layers, SeqNo |-> SeqNo,
                ARMSN |-> a.last_rcvd_seq_no,
                OrderEntrySeqNo |-> OrderEntrySeqNo,
                InternalProcessing |-> InternalProcessing(a, layers, msg)]
  IN [frame |-> frame,
      a |-> [a EXCEPT !.last_sent_seq_no = SeqNo,
                      !.last_sent_order_entry_seq_no =
                         IF "OrderCommonO" \in layers
                         THEN OrderEntrySeqNo ELSE @,
                      !.last_sent_internal =
                         IF NeedsInternal(layers, msg)
                         THEN frame.InternalProcessing ELSE @,
                      !.generated =
                         IF NeedsInternal(layers, msg)
                         THEN Append(@, frame.InternalProcessing) ELSE @,
                      !.prepared = Append(@, frame)]]

(* the queue after send_msg has put what _prepare_msg returned *)
Queued(r) == [r.a EXCEPT !.send_queue = Append(@, r.frame)]

(* AHDClient.send_msg *)
send_msg(a, msg) == Queued(_prepare_msg(a, msg))

Message(layers, SeqNo, OrderEntrySeqNo) ==
  [layers |-> layers, SeqNo |-> SeqNo, OrderEntrySeqNo |-> OrderEntrySeqNo,
   InternalProcessing |-> NoText]

(* the default of the prefix argument of AHDClient *)
VIRTUA == Text(<<"V", "I", "R", "T", "U", "A">>)

(* the client constructed with a prefix: last_sent_internal is
   prefix + "0" * (20 - len(prefix)); generated holds every ID
   _generate_next_internal returned, in order *)
AHDClient(prefix) ==
  AHDClient__init__ @@
  [prefix |-> prefix,
   last_sent_internal |-> prefix \o [i \in 1..(20 - Len(prefix)) |-> 48],
   generated |-> << >>]

(* what a caller hands to send_msg *)
AhdMessages ==
  { Message({"NewOrder"}, NoInt, NoInt),
    Message({"ESPCommon", "OrderCommonO", "NewOrder"}, NoInt, NoInt),
    Message({"OrderCommonO", "NewOrder"}, NoInt, 1),
    Message({"OrderCommonQ"}, NoInt, NoInt),
    Message({"OpStart"}, NoInt, NoInt),
    Message({"PreLogoutRequest"}, NoInt, NoInt),
    Message({"ESPCommon", "Heartbeat"}, 1, NoInt) }

(* the ARMSN and the SeqNo a LoginResponse may carry *)
ArmsnValues == 0..2

InitAhd ==
  /\ AuxIdleBut("")
  /\ MainIdle
  /\ FixIdle
  /\ codec = CodecRest
  /\ cli = FixClient__init__
  /\ ahd = AHDClient(VIRTUA)

AhdStep(a, op) ==
  /\ ahd' = [a EXCEPT !.n = @ + 1, !.last_op = op]
  /\ UNCHANGED <<mainvars, fixvars, codec, cli, auxvars, auxvars2>>

Running == ahd.n < MaxAhdOps /\ ~ahd.stop_event

(* the socket after the sender wrote the frame *)
Written(a, frame) ==
  [a EXCEPT !.wire = Append(@, frame), !.last_send = a.now]

Heartbeat == Message({"Heartbeat"}, NoInt, NoInt)

(* one pass of AHDClient._send_loop over what send_queue.get gave: a frame,
   None, or the Empty it raises when the second of waiting is over *)
_send_loop(a, got) ==
  IF got.kind = "Empty" THEN a
  ELSE IF got.kind = "None"
  THEN IF /\ a._heartbeats_allowed
          /\ a.heartbeat_timeout # 0
          /\ a.now > a.last_send + a.heartbeat_timeout
       THEN Written(_prepare_msg(a, Heartbeat).a,
                    _prepare_msg(a, Heartbeat).frame)
       ELSE a
  ELSE Written(a, got.frame)

(* AHDClient.stop: heartbeats off, the threads told to end, None put for
   the sender, the queue dropped *)
stop(a) ==
  [_send_loop([a EXCEPT !._heartbeats_allowed = FALSE,
                        !.stop_event = TRUE],
              [kind |-> "None"])
     EXCEPT !.send_queue = << >>]

(* AHDClient.login: the LoginRequest is queued and written, the receive
   loop stores the SeqNo of the LoginResponse, and login() aligns
   last_sent_seq_no with its ARMSN and enables heartbeats *)
login(a, armsn) ==
  [Written(_prepare_msg(a, Message({"LoginRequest"}, NoInt, NoInt)).a,
           _prepare_msg(a, Message({"LoginRequest"}, NoInt, NoInt)).frame)
     EXCEPT !.last_rcvd_seq_no = 1,
            !.last_sent_seq_no = armsn,
            !._heartbeats_allowed = TRUE]

Login ==
  \E armsn \in ArmsnValues :
    /\ Running
    /\ ~ahd._heartbeats_allowed
    /\ ahd.send_queue = << >>
    /\ AhdStep(login(ahd, armsn), [op |-> "login"])

SendMsg ==
  \E msg \in AhdMessages :
    /\ Running
    /\ AhdStep(send_msg(ahd, msg),
               [op |-> "send_msg", msg |-> msg,
                before |-> ahd.last_sent_order_entry_seq_no])

(* the sender gets a frame within the second and writes it *)
SendLoopSend ==
  /\ Running
  /\ ahd.send_queue # << >>
  /\ AhdStep(_send_loop([ahd EXCEPT !.send_queue = Tail(@)],
                        [kind |-> "frame", frame |-> Head(ahd.send_queue)]),
             [op |-> "sent"])

(* the sender waits its second on an empty queue *)
SendLoopEmpty ==
  /\ Running
  /\ ahd.send_queue = << >>
  /\ AhdStep(_send_loop([ahd EXCEPT !.now = @ + 1], [kind |-> "Empty"]),
             [op |-> "empty", allowed |-> ahd._heartbeats_allowed,
              idle |-> ahd.now + 1 - ahd.last_send,
              written |-> Len(ahd.wire)])

Stop ==
  /\ Running
  /\ AhdStep(stop(ahd), [op |-> "stop"])

NextAhd ==
  \/ Login
  \/ SendMsg
  \/ SendLoopSend
  \/ SendLoopEmpty
  \/ Stop

SpecAhd == InitAhd /\ [][NextAhd]_vars

(* the prepared frames that carry an OrderCommonO or OrderCommonQ layer *)
OrderFrames ==
  SelectSeq(ahd.prepared,
            LAMBDA f : f.layers \cap {"OrderCommonO", "OrderCommonQ"} # {})

(* C12: the ESPCommon.SeqNo values of the frames the client sends are
   1, 2, 3, ... with no repeat and no gap, whatever ARMSN the LoginResponse
   carried and also when a caller preset SeqNo. *)
SeqNoConsecutive ==
  \A i \in 1..Len(ahd.prepared) : ahd.prepared[i].SeqNo = i

(* C13: the OrderEntrySeqNo values of successive OrderCommonO and
   OrderCommonQ frames are strictly increasing, so no two of these frames
   carry the same OrderEntrySeqNo. *)
OrderEntrySeqNoStrictlyIncreasing ==
  \A i \in 1..Len(OrderFrames) : \A j \in 1..Len(OrderFrames) :
    i < j => OrderFrames[i].OrderEntrySeqNo < OrderFrames[j].OrderEntrySeqNo

(* C14: a send whose frame has no OrderCommonO layer leaves
   last_sent_order_entry_seq_no as it was, and a send whose frame has an
   OrderCommonO layer and no preset OrderEntrySeqNo advances it by
   exactly 1. *)
OrderEntryCounterAdvance ==
  ahd.last_op.op = "send_msg" =>
    LET frame == ahd.prepared[Len(ahd.prepared)]
    IN /\ "OrderCommonO" \notin frame.layers =>
            ahd.last_sent_order_entry_seq_no = ahd.last_op.before
       /\ ("OrderCommonO" \in frame.layers
           /\ ahd.last_op.msg.OrderEntrySeqNo = NoInt) =>
            ahd.last_sent_order_entry_seq_no = ahd.last_op.before + 1

(* C14 witness: after an order moved the counter to 1, a query was sent
   and the counter is still 1. *)
WitnessQueryKeepsCounter ==
  /\ ahd.last_op.op = "send_msg"
  /\ "OrderCommonQ" \in ahd.prepared[Len(ahd.prepared)].layers
  /\ ahd.last_op.before = 1
  /\ ahd.last_sent_order_entry_seq_no = 1
  /\ \E i \in 1..Len(ahd.prepared) :
       /\ "NewOrder" \in ahd.prepared[i].layers
       /\ "OrderCommonO" \in ahd.prepared[i].layers
       /\ ahd.prepared[i].OrderEntrySeqNo = 1

(* C15: once login has enabled heartbeats, a pass of the sender that finds
   the queue empty for longer than the heartbeat interval writes exactly
   one Heartbeat frame. *)
IdleHeartbeatEmitted ==
  (/\ ahd.last_op.op = "empty"
   /\ ahd.last_op.allowed
   /\ ahd.last_op.idle > ahd.heartbeat_timeout) =>
    /\ Len(ahd.wire) = ahd.last_op.written + 1
    /\ "Heartbeat" \in ahd.wire[Len(ahd.wire)].layers

(* ================= stream extractor (fix_poc, asyncio) ================= *)
(* The state is the record strm: the frames the peer wrote, rest (the bytes
   of the stream not yet read), buffer (the receive loop's buffer) and
   messages (everything the extractor returned, in order). *)

(* buffer.find(sub), as an index from 1; 0 when sub does not occur *)
find(buffer, sub) ==
  LET at == {i \in 1..(Len(buffer) - Len(sub) + 1) :
               SubSeq(buffer, i, i + Len(sub) - 1) = sub}
  IN IF at = {} THEN 0 ELSE CHOOSE i \in at : \A j \in at : i <= j

(* buffer.find(SOH_b, idx) *)
find_SOH(buffer, idx) ==
  LET at == {i \in idx..Len(buffer) : buffer[i] = SOH}
  IN IF at = {} THEN 0 ELSE CHOOSE i \in at : \A j \in at : i <= j

(* AsyncFixClient._extract_complete_messages: [messages, buffer] *)
RECURSIVE _extract_complete_messages(_, _)
_extract_complete_messages(buffer, messages) ==
  LET idx == find(buffer, Text(<<"1", "0", "=">>))
      end == find_SOH(buffer, idx)
  IN IF idx = 0 \/ end = 0 THEN [messages |-> messages, buffer |-> buffer]
     ELSE IF end < 2 \/ SubSeq(buffer, 1, 2) # Text(<<"8", "=">>)
     THEN _extract_complete_messages(SubSeq(buffer, end + 1, Len(buffer)),
                                     messages)
     ELSE _extract_complete_messages(SubSeq(buffer, end + 1, Len(buffer)),
                                     Append(messages, SubSeq(buffer, 1, end)))

(* FixCodec.extract_messages *)
RECURSIVE extract_messages(_, _)
extract_messages(buffer, messages) ==
  LET idx == find(buffer, Text(<<"1", "0", "=">>))
      end == find_SOH(buffer, idx)
  IN IF idx = 0 \/ end = 0 THEN [messages |-> messages, buffer |-> buffer]
     ELSE IF end < 2 \/ SubSeq(buffer, 1, 2) # Text(<<"8", "=">>)
     THEN extract_messages(SubSeq(buffer, end + 1, Len(buffer)), messages)
     ELSE extract_messages(SubSeq(buffer, end + 1, Len(buffer)),
                           Append(messages, SubSeq(buffer, 1, end)))

(* well-formed frames a peer may write: a Heartbeat, an order with tag 110
   (MinQty), an order whose text holds "10=" *)
StreamFrames ==
  { FixCodec_dict_to_fix((8 :> FIX44) @@ (35 :> Text(<<"0">>))).frame,
    FixCodec_dict_to_fix((8 :> FIX44) @@ (35 :> Text(<<"D">>))
                           @@ (110 :> Text(<<"5">>))).frame,
    FixCodec_dict_to_fix((8 :> FIX44) @@ (35 :> Text(<<"D">>))
                           @@ (58 :> Text(<<"1", "0", "=">>))).frame }

RECURSIVE concat(_)
concat(frames) ==
  IF frames = << >> THEN << >> ELSE frames[1] \o concat(Tail(frames))

Streams == UNION {[1..n -> StreamFrames] : n \in 1..MaxFrames}

InitStream ==
  /\ MainIdle
  /\ FixIdle
  /\ SessIdle
  /\ AuxIdleBut("strm")
  /\ strm \in {[extractor |-> x, frames |-> f, rest |-> concat(f),
                buffer |-> << >>, messages |-> << >>] :
               x \in {"AsyncFixClient", "FixCodec"}, f \in Streams}

(* one pass of a receive loop: the read bytes join the buffer, the
   extractor runs over it, and the messages go to the queue *)
StreamStep(chunk, r) ==
  /\ strm' = [strm EXCEPT !.rest = SubSeq(@, chunk + 1, Len(@)),
                          !.buffer = r.buffer,
                          !.messages = @ \o r.messages]
  /\ UNCHANGED <<mainvars, fixvars, sessvars, arx, fin, esp, ack, thr, wrk, auxvars2>>

(* AsyncFixClient._recv_loop *)
AsyncRecv ==
  \E chunk \in 1..Len(strm.rest) :
    /\ strm.extractor = "AsyncFixClient"
    /\ StreamStep(chunk,
         _extract_complete_messages(
           strm.buffer \o SubSeq(strm.rest, 1, chunk), << >>))

(* the server's connection handler *)
ServerRecv ==
  \E chunk \in 1..Len(strm.rest) :
    /\ strm.extractor = "FixCodec"
    /\ StreamStep(chunk,
         extract_messages(strm.buffer \o SubSeq(strm.rest, 1, chunk), << >>))

NextStream ==
  \/ AsyncRecv
  \/ ServerRecv

SpecStream == InitStream /\ [][NextStream]_vars

(* the number of bytes read so far, and the number of leading frames of
   the stream that lie wholly within them *)
Delivered == Len(concat(strm.frames)) - Len(strm.rest)

WholeFrames ==
  CHOOSE k \in 0..Len(strm.frames) :
    /\ Len(concat(SubSeq(strm.frames, 1, k))) <= Delivered
    /\ k < Len(strm.frames) =>
         Len(concat(SubSeq(strm.frames, 1, k + 1))) > Delivered

(* C22: whatever the chunks, the extractor has returned every frame that
   has wholly arrived, each once, whole and in stream order, and the buffer
   holds the bytes of the incomplete trailing frame; also for a frame with
   tag 110 or with a value holding "10=". *)
FramesExtractedWhole ==
  /\ strm.messages = SubSeq(strm.frames, 1, WholeFrames)
  /\ strm.buffer =
       SubSeq(concat(strm.frames),
              Len(concat(SubSeq(strm.frames, 1, WholeFrames))) + 1, Delivered)

(* ================ AHDClient receive loop and login ===================== *)
(* The state is the record arx: the handlers and flags of an AHDClient,
   its receive queue, login (where the thread that called login() is),
   arrived (the frames the receive loop has read), enqueued (every frame it
   put on the queue) and ran (the handlers it ran for the last frame).
   A received frame is [layers, SeqNo, ARMSN, SAMSN]; a frame with a
   NoticeCommonO layer also has NoticeSeqNo and payload, the class name of
   the layer's payload as the sequence of its capitalised words. *)

(* what a registered handler returns for a frame: default_handler, a
   handler that consumes MarketAdmin, a handler that only looks *)
handler(name, arx_, msg) ==
  IF name = "default_handler"
  THEN "Heartbeat" \in msg.layers /\ arx_.handle_heartbeats
  ELSE IF name = "on_admin" THEN "MarketAdmin" \in msg.layers
  ELSE IF name = "on_notice" THEN "NoticeCommonO" \in msg.layers
  ELSE FALSE

(* every handler run, whatever the earlier ones returned *)
RECURSIVE any_handler_runs_all(_, _, _, _)
any_handler_runs_all(handlers, arx_, msg, ran) ==
  IF handlers = << >> THEN [handled |-> FALSE, ran |-> ran]
  ELSE LET rest == any_handler_runs_all(Tail(handlers), arx_, msg,
                                        Append(ran, Head(handlers)))
       IN [handled |-> handler(Head(handlers), arx_, msg) \/ rest.handled,
           ran |-> rest.ran]

(* any(handler(msg) for handler in self.handlers): [handled, ran] *)
RECURSIVE any_handler(_, _, _, _)
any_handler(handlers, arx_, msg, ran) ==
  IF handlers = << >> THEN [handled |-> FALSE, ran |-> ran]
  ELSE IF handler(Head(handlers), arx_, msg)
  THEN [handled |-> TRUE, ran |-> Append(ran, Head(handlers))]
  ELSE any_handler(Tail(handlers), arx_, msg, Append(ran, Head(handlers)))

(* str.endswith over names held as sequences of words *)
endswith(name, suffix) ==
  /\ Len(name) >= Len(suffix)
  /\ SubSeq(name, Len(name) - Len(suffix) + 1, Len(name)) = suffix

(* the test that takes only an AcceptanceNotice for an acceptance *)
IsAcceptance_notice_only(cls_name) ==
  endswith(cls_name, <<"Acceptance", "Notice">>)

(* cls_name.endswith(("AcceptanceNotice", "AcceptanceError")) *)
IsAcceptance(cls_name) ==
  \/ endswith(cls_name, <<"Acceptance", "Notice">>)
  \/ endswith(cls_name, <<"Acceptance", "Error">>)

(* one pass of AHDClient._receive_loop over a frame that was read whole *)
_receive_loop(a, msg, h) ==
  [a EXCEPT !.last_rcvd_seq_no = msg.SeqNo,
            !.last_rcvd_arm_sn = msg.ARMSN,
            !.last_rcvd_sam_sn = msg.SAMSN,
            !.last_rcvd_notice_seq_no =
               IF "NoticeCommonO" \in msg.layers /\ IsAcceptance(msg.payload)
               THEN msg.NoticeSeqNo ELSE @,
            !.last_rcvd_execution_seq_no =
               IF "NoticeCommonO" \in msg.layers /\ ~IsAcceptance(msg.payload)
               THEN msg.NoticeSeqNo ELSE @,
            !.arrived = Append(@, msg),
            !.ran = h.ran,
            !.receive_queue = IF h.handled THEN @ ELSE Append(@, msg),
            !.enqueued = IF h.handled THEN @ ELSE Append(@, msg)]

HandlerLists ==
  { <<"default_handler">>,
    <<"default_handler", "on_admin">>,
    <<"on_admin", "observer", "default_handler">>,
    <<"observer", "default_handler", "observer">> }

FrameLayers ==
  { {"ESPCommon", "Heartbeat"},
    {"ESPCommon", "LoginResponse"},
    {"ESPCommon", "AdminCommonOU", "MarketAdmin"} }

InitAhdRecv ==
  /\ MainIdle
  /\ FixIdle
  /\ SessIdle
  /\ AuxIdleBut("arx")
  /\ arx \in {[handlers |-> hs, handle_heartbeats |-> hh,
               receive_queue |-> << >>, last_rcvd_seq_no |-> 0,
               last_rcvd_arm_sn |-> 0, last_rcvd_sam_sn |-> 0,
               last_rcvd_notice_seq_no |-> 0,
               last_rcvd_execution_seq_no |-> 0,
               last_sent_seq_no |-> 0, _heartbeats_allowed |-> FALSE,
               login |-> "not called", response |-> << >>,
               arrived |-> << >>, enqueued |-> << >>, ran |-> << >>] :
              hs \in HandlerLists, hh \in BOOLEAN}

AhdRecvStep(a) ==
  /\ arx' = a
  /\ UNCHANGED <<mainvars, fixvars, sessvars, strm, fin, esp, ack, thr, wrk, auxvars2>>

(* the peer's next frame reaches the receive loop *)
Arrive ==
  \E layers \in FrameLayers, armsn \in ArmsnValues :
    /\ Len(arx.arrived) < MaxArrivals
    /\ AhdRecvStep(
         _receive_loop(arx,
           [layers |-> layers, SeqNo |-> Len(arx.arrived) + 1,
            ARMSN |-> armsn, SAMSN |-> 0],
           any_handler(arx.handlers, arx,
             [layers |-> layers, SeqNo |-> Len(arx.arrived) + 1,
              ARMSN |-> armsn, SAMSN |-> 0], << >>)))

(* AHDClient.login up to its receive_msg(): the LoginRequest is sent *)
LoginSend ==
  /\ arx.login = "not called"
  /\ AhdRecvStep([arx EXCEPT !.login = "receive_msg",
                            !.last_sent_seq_no = @ + 1])

(* AHDClient.login from the return of receive_msg(): the assert, then the
   two assignments *)
LoginReceive ==
  /\ arx.login = "receive_msg"
  /\ arx.receive_queue # << >>
  /\ AhdRecvStep(
       IF "LoginResponse" \in Head(arx.receive_queue).layers
       THEN [arx EXCEPT !.receive_queue = Tail(@),
                        !.response = Head(arx.receive_queue),
                        !.last_sent_seq_no = Head(arx.receive_queue).ARMSN,
                        !._heartbeats_allowed = TRUE,
                        !.login = "returned"]
       ELSE [arx EXCEPT !.receive_queue = Tail(@),
                        !.response = Head(arx.receive_queue),
                        !.login = "AssertionError"])

(* AHDClient.receive_msg called by the test itself *)
ReceiveMsg ==
  /\ arx.login # "receive_msg"
  /\ arx.receive_queue # << >>
  /\ AhdRecvStep([arx EXCEPT !.receive_queue = Tail(@)])

NextAhdRecv ==
  \/ Arrive
  \/ LoginSend
  \/ LoginReceive
  \/ ReceiveMsg

SpecAhdRecv == InitAhdRecv /\ [][NextAhdRecv]_vars

(* some registered handler returns true for the frame *)
Consumed(msg) ==
  \E i \in 1..Len(arx.handlers) : handler(arx.handlers[i], arx, msg)

(* C23: the frames put on the receive queue are the arrived frames that no
   handler consumes, in arrival order and each once; a frame some handler
   returned true for is not among them; and for the last frame the
   handlers ran in order up to the first that returned true, no further. *)
UnconsumedFramesQueuedInOrder ==
  /\ arx.enqueued = SelectSeq(arx.arrived, LAMBDA f : ~Consumed(f))
  /\ \A i \in 1..Len(arx.enqueued) : ~Consumed(arx.enqueued[i])
  /\ arx.arrived # << >> =>
       LET msg == arx.arrived[Len(arx.arrived)]
           n == Len(arx.ran)
       IN /\ arx.ran = SubSeq(arx.handlers, 1, n)
          /\ \A i \in 1..(n - 1) : ~handler(arx.handlers[i], arx, msg)
          /\ n < Len(arx.handlers) => handler(arx.handlers[n], arx, msg)

(* C23 witness: a MarketAdmin was consumed by the first of three handlers,
   the other two did not run, and an earlier frame is on the queue *)
WitnessFirstHandlerConsumes ==
  /\ Len(arx.arrived) >= 2
  /\ "MarketAdmin" \in arx.arrived[Len(arx.arrived)].layers
  /\ arx.handlers = <<"on_admin", "observer", "default_handler">>
  /\ arx.ran = <<"on_admin">>
  /\ arx.enqueued # << >>
  /\ Len(arx.enqueued) < Len(arx.arrived)

(* C24: login() passes over the frames delivered before the LoginResponse;
   when it has returned, last_sent_seq_no is the ARMSN of a LoginResponse
   and heartbeats are enabled; heartbeats are never enabled before a
   LoginResponse was received. *)
LoginWaitsForLoginResponse ==
  /\ arx.login \in {"not called", "receive_msg", "returned"}
  /\ arx.login = "returned" =>
       /\ "LoginResponse" \in arx.response.layers
       /\ arx.last_sent_seq_no = arx.response.ARMSN
       /\ arx._heartbeats_allowed
  /\ arx._heartbeats_allowed =>
       \E i \in 1..Len(arx.arrived) : "LoginResponse" \in arx.arrived[i].layers

(* ------------- the counters the receive loop keeps (SpecRcv) ----------- *)
(* the payload classes bound to NoticeCommonO that the peer sends *)
NoticePayloads ==
  { <<"New", "Order", "Acceptance", "Notice">>,
    <<"Cancel", "Order", "Acceptance", "Error">>,
    <<"Acceptance", "Output", "Completion", "Notice">>,
    <<"Execution", "Completion", "Notice">>,
    <<"New", "Order", "Registration", "Error">> }

(* the ARMSN and SAMSN of a received header *)
HeaderValues == {[ARMSN |-> 1, SAMSN |-> 2], [ARMSN |-> 2, SAMSN |-> 0]}

NoticeSeqNos == {5, 6}

ReceivedFrames ==
  { [layers |-> {"ESPCommon", "NoticeCommonO"}, ARMSN |-> h.ARMSN,
     SAMSN |-> h.SAMSN, NoticeSeqNo |-> n, payload |-> p] :
      h \in HeaderValues, n \in NoticeSeqNos, p \in NoticePayloads }
  \cup
  { [layers |-> l, ARMSN |-> h.ARMSN, SAMSN |-> h.SAMSN,
     NoticeSeqNo |-> NoInt, payload |-> << >>] :
      h \in HeaderValues,
      l \in {{"ESPCommon", "Heartbeat"}, {"ESPCommon", "NoticeCommonQ"}} }

InitRcv ==
  /\ MainIdle
  /\ FixIdle
  /\ SessIdle
  /\ AuxIdleBut("arx")
  /\ arx \in {[handlers |-> hs, handle_heartbeats |-> TRUE,
               receive_queue |-> << >>, last_rcvd_seq_no |-> 0,
               last_rcvd_arm_sn |-> 0, last_rcvd_sam_sn |-> 0,
               last_rcvd_notice_seq_no |-> 0,
               last_rcvd_execution_seq_no |-> 0,
               last_sent_seq_no |-> 0, _heartbeats_allowed |-> FALSE,
               login |-> "not called", response |-> << >>,
               arrived |-> << >>, enqueued |-> << >>, ran |-> << >>] :
              hs \in {<<"default_handler">>, <<"default_handler", "on_notice">>}}

(* the peer's next frame, a notice or not, reaches the receive loop *)
ArriveFrame ==
  \E f \in ReceivedFrames :
    /\ Len(arx.arrived) < MaxNotices
    /\ LET msg == [layers |-> f.layers, SeqNo |-> Len(arx.arrived) + 1,
                   ARMSN |-> f.ARMSN, SAMSN |-> f.SAMSN,
                   NoticeSeqNo |-> f.NoticeSeqNo, payload |-> f.payload]
       IN AhdRecvStep(_receive_loop(arx, msg,
                        any_handler(arx.handlers, arx, msg, << >>)))

NextRcv ==
  \/ ArriveFrame
  \/ ReceiveMsg

SpecRcv == InitRcv /\ [][NextRcv]_vars

(* C33: each received frame sets last_rcvd_seq_no, last_rcvd_arm_sn and
   last_rcvd_sam_sn from its header, consumed by a handler or not; a frame
   with NoticeCommonO sets last_rcvd_notice_seq_no to its NoticeSeqNo when
   the payload class name ends in AcceptanceNotice or AcceptanceError and
   last_rcvd_execution_seq_no otherwise, leaving the other unchanged; any
   other frame changes neither. *)
ReceivedFrameSetsCounters ==
  [][Len(arx'.arrived) = Len(arx.arrived) + 1 =>
       LET msg == arx'.arrived[Len(arx'.arrived)]
           acceptance ==
             \/ endswith(msg.payload, <<"Acceptance", "Notice">>)
             \/ endswith(msg.payload, <<"Acceptance", "Error">>)
       IN /\ arx'.last_rcvd_seq_no = msg.SeqNo
          /\ arx'.last_rcvd_arm_sn = msg.ARMSN
          /\ arx'.last_rcvd_sam_sn = msg.SAMSN
          /\ IF "NoticeCommonO" \notin msg.layers
             THEN /\ arx'.last_rcvd_notice_seq_no = arx.last_rcvd_notice_seq_no
                  /\ arx'.last_rcvd_execution_seq_no =
                       arx.last_rcvd_execution_seq_no
             ELSE IF acceptance
             THEN /\ arx'.last_rcvd_notice_seq_no = msg.NoticeSeqNo
                  /\ arx'.last_rcvd_execution_seq_no =
                       arx.last_rcvd_execution_seq_no
             ELSE /\ arx'.last_rcvd_execution_seq_no = msg.NoticeSeqNo
                  /\ arx'.last_rcvd_notice_seq_no = arx.last_rcvd_notice_seq_no
    ]_vars

(* C33 witness: an acceptance error that a handler consumed moved the
   notice counter and left the execution counter an earlier notice set *)
WitnessConsumedAcceptanceError ==
  /\ Len(arx.arrived) = 2
  /\ arx.handlers = <<"default_handler", "on_notice">>
  /\ arx.arrived[2].payload = <<"Cancel", "Order", "Acceptance", "Error">>
  /\ arx.enqueued = << >>
  /\ arx.last_rcvd_notice_seq_no = 6
  /\ arx.last_rcvd_execution_seq_no = 5
  /\ arx.last_rcvd_arm_sn = 1 /\ arx.last_rcvd_sam_sn = 2

(* ---------------------- AHDClient.logout (SpecOut) --------------------- *)
(* arx also holds logout (where the thread that called logout() is), sent
   (the requests logout() handed to send_msg) and got (the frames its
   receive_msg calls returned). *)

LogoutFrameLayers ==
  { {"ESPCommon", "Heartbeat"},
    {"ESPCommon", "PreLogoutResponse"},
    {"ESPCommon", "LogoutResponse"},
    {"ESPCommon", "AdminCommonOU", "MarketAdmin"} }

InitOut ==
  /\ MainIdle
  /\ FixIdle
  /\ SessIdle
  /\ AuxIdleBut("arx")
  /\ arx \in {[handlers |-> <<"default_handler">>, handle_heartbeats |-> hh,
               receive_queue |-> << >>, last_rcvd_seq_no |-> 0,
               last_rcvd_arm_sn |-> 0, last_rcvd_sam_sn |-> 0,
               last_rcvd_notice_seq_no |-> 0,
               last_rcvd_execution_seq_no |-> 0,
               last_sent_seq_no |-> 0, _heartbeats_allowed |-> TRUE,
               login |-> "returned", response |-> << >>,
               arrived |-> << >>, enqueued |-> << >>, ran |-> << >>,
               logout |-> "not called", sent |-> << >>, got |-> << >>] :
              hh \in BOOLEAN}

(* the peer's next frame reaches the receive loop *)
ArriveOut ==
  \E layers \in LogoutFrameLayers :
    /\ Len(arx.arrived) < MaxArrivals
    /\ LET msg == [layers |-> layers, SeqNo |-> Len(arx.arrived) + 1,
                   ARMSN |-> 0, SAMSN |-> 0]
       IN AhdRecvStep(_receive_loop(arx, msg,
                        any_handler(arx.handlers, arx, msg, << >>)))

(* logout() up to its first receive_msg() *)
LogoutSend ==
  /\ arx.logout = "not called"
  /\ AhdRecvStep([arx EXCEPT !.logout = "PreLogoutResponse",
                            !.sent = Append(@, "PreLogoutRequest")])

(* the while loop of logout(): a receive_msg() returns; on a
   PreLogoutResponse the loop is left and the LogoutRequest sent *)
LogoutLoop ==
  /\ arx.logout = "PreLogoutResponse"
  /\ arx.receive_queue # << >>
  /\ AhdRecvStep(
       IF "PreLogoutResponse" \in Head(arx.receive_queue).layers
       THEN [arx EXCEPT !.receive_queue = Tail(@),
                        !.got = Append(@, Head(arx.receive_queue)),
                        !.sent = Append(@, "LogoutRequest"),
                        !.logout = "LogoutResponse"]
       ELSE [arx EXCEPT !.receive_queue = Tail(@),
                        !.got = Append(@, Head(arx.receive_queue))])

(* the last receive_msg() of logout() returns, and the assert *)
LogoutReceive ==
  /\ arx.logout = "LogoutResponse"
  /\ arx.receive_queue # << >>
  /\ AhdRecvStep(
       [arx EXCEPT !.receive_queue = Tail(@),
                   !.got = Append(@, Head(arx.receive_queue)),
                   !.logout =
                      IF "LogoutResponse" \in Head(arx.receive_queue).layers
                      THEN "returned" ELSE "AssertionError"])

NextOut ==
  \/ ArriveOut
  \/ LogoutSend
  \/ LogoutLoop
  \/ LogoutReceive

SpecOut == InitOut /\ [][NextOut]_vars

(* C35: logout() sends LogoutRequest only after it received a
   PreLogoutResponse, returns only after it received a LogoutResponse, and
   passes over the frames of other types that arrive during either wait,
   so that no such frame makes it fail. *)
LogoutWaitsForResponses ==
  /\ Len(arx.sent) = 2 =>
       \E i \in 1..Len(arx.got) : "PreLogoutResponse" \in arx.got[i].layers
  /\ arx.logout = "returned" =>
       "LogoutResponse" \in arx.got[Len(arx.got)].layers
  /\ arx.logout # "AssertionError"

(* ================= shutting a client down, more than once ============== *)
(* The state is the record fin: the fields of one started client that
   stop() or disconnect() read and write, exc (what the last call raised),
   calls (how often it was called) and first (the fields as the first call
   left them). An attribute holds NoneObj, a Queue of qsize items, a socket
   or a socket pair. *)
NoneObj == [none |-> TRUE]
Queue(n) == [qsize |-> n]
Socket(closed) == [closed |-> closed]

(* what a method call on an attribute raises when the attribute is None *)
CallOn(obj) == IF obj = NoneObj THEN "AttributeError" ELSE NoExc

(* recv_socket_pair[0] of an attribute that may be None *)
Subscript(obj) == IF obj = NoneObj THEN "TypeError" ELSE NoExc

(* the first exception of the statements run in order *)
FirstExc(excs) ==
  IF \A i \in 1..Len(excs) : excs[i] = NoExc THEN NoExc
  ELSE excs[CHOOSE i \in 1..Len(excs) :
              excs[i] # NoExc /\ \A j \in 1..(i - 1) : excs[j] = NoExc]

(* c when exc is NoExc, else the client as the raising call left it *)
Completed(c, done, exc) ==
  IF exc = NoExc THEN [done EXCEPT !.exc = NoExc]
  ELSE [c EXCEPT !._heartbeats_allowed = done._heartbeats_allowed,
                 !.stop_event = TRUE, !.exc = exc]

(* AHDClient.stop with the byte sent without the test on recv_socket_pair *)
AHDClient_stop_unguarded(c, joined) ==
  Completed(c,
    [c EXCEPT !._heartbeats_allowed = FALSE,
              !.stop_event = TRUE,
              !.send_alive = @ /\ ~joined,
              !.receive_alive = @ /\ ~joined,
              !.send_queue = NoneObj,
              !.receive_queue = NoneObj,
              !.socket = NoneObj,
              !.recv_socket_pair = NoneObj],
    FirstExc(<<
      IF c.send_queue # NoneObj THEN CallOn(c.send_queue) ELSE NoExc,
      Subscript(c.recv_socket_pair),
      IF c.recv_socket_pair # NoneObj
      THEN Subscript(c.recv_socket_pair) ELSE NoExc,
      IF c.socket # NoneObj THEN CallOn(c.socket) ELSE NoExc >>))

(* AHDClient.stop; joined tells whether the workers ended within the two
   seconds stop() waits for each. The sentinel is put and the byte is sent
   only when the queue and the socket pair are there, a resource is closed
   only when it is there, and all four attributes end as None. *)
AHDClient_stop(c, joined) ==
  Completed(c,
    [c EXCEPT !._heartbeats_allowed = FALSE,
              !.stop_event = TRUE,
              !.send_alive = @ /\ ~joined,
              !.receive_alive = @ /\ ~joined,
              !.send_queue = NoneObj,
              !.receive_queue = NoneObj,
              !.socket = NoneObj,
              !.recv_socket_pair = NoneObj],
    FirstExc(<<
      IF c.send_queue # NoneObj THEN CallOn(c.send_queue) ELSE NoExc,
      IF c.recv_socket_pair # NoneObj
      THEN Subscript(c.recv_socket_pair) ELSE NoExc,
      IF c.recv_socket_pair # NoneObj
      THEN Subscript(c.recv_socket_pair) ELSE NoExc,
      IF c.socket # NoneObj THEN CallOn(c.socket) ELSE NoExc >>))

(* FixClient.disconnect: the logout is queued only while there is a socket
   (what it raises is swallowed), the socket is closed and released only
   while there is one, and both queues, which are never None, are drained *)
FixClient_disconnect(c) ==
  Completed(c,
    [c EXCEPT !.stop_event = TRUE,
              !.socket = NoneObj,
              !.send_queue = Queue(0),
              !.receive_queue = Queue(0)],
    FirstExc(<<
      IF c.socket # NoneObj THEN CallOn(c.socket) ELSE NoExc,
      CallOn(c.send_queue),
      CallOn(c.receive_queue) >>))

(* what the claim compares *)
Released(c) ==
  [stop_event |-> c.stop_event, socket |-> c.socket,
   recv_socket_pair |-> c.recv_socket_pair, send_queue |-> c.send_queue,
   receive_queue |-> c.receive_queue,
   _heartbeats_allowed |-> c._heartbeats_allowed]

InitFin ==
  /\ MainIdle
  /\ FixIdle
  /\ SessIdle
  /\ AuxIdleBut("fin")
  /\ fin \in {[class |-> k, _heartbeats_allowed |-> hb, stop_event |-> FALSE,
               send_alive |-> TRUE, receive_alive |-> TRUE,
               send_queue |-> Queue(0), receive_queue |-> Queue(0),
               socket |-> Socket(FALSE),
               recv_socket_pair |->
                 IF k = "AHDClient" THEN Socket(FALSE) ELSE NoneObj,
               exc |-> NoExc, calls |-> 0, first |-> << >>,
               queued |-> 0] :
              k \in {"AHDClient", "FixClient"}, hb \in BOOLEAN}

FinStep(c) ==
  /\ fin' = [c EXCEPT !.calls = @ + 1,
                      !.first = IF fin.calls = 0 THEN Released(c) ELSE @,
                      !.queued = IF fin.calls = 0
                                 THEN fin.send_queue.qsize
                                        + fin.receive_queue.qsize
                                 ELSE @]
  /\ UNCHANGED <<mainvars, fixvars, sessvars, strm, arx, esp, ack, thr, wrk, auxvars2>>

(* a caller queues a message to send *)
FinSend ==
  /\ ~fin.stop_event
  /\ fin.send_queue.qsize < MaxQueued
  /\ fin' = [fin EXCEPT !.send_queue = Queue(@.qsize + 1)]
  /\ UNCHANGED <<mainvars, fixvars, sessvars, strm, arx, esp, ack, thr, wrk, auxvars2>>

(* the receive loop queues a message *)
FinReceive ==
  /\ ~fin.stop_event
  /\ fin.receive_queue.qsize < MaxQueued
  /\ fin' = [fin EXCEPT !.receive_queue = Queue(@.qsize + 1)]
  /\ UNCHANGED <<mainvars, fixvars, sessvars, strm, arx, esp, ack, thr, wrk, auxvars2>>

(* a worker that outlived the join ends on the stop flag *)
WorkersEnd ==
  /\ fin.stop_event
  /\ fin.send_alive \/ fin.receive_alive
  /\ fin' = [fin EXCEPT !.send_alive = FALSE, !.receive_alive = FALSE]
  /\ UNCHANGED <<mainvars, fixvars, sessvars, strm, arx, esp, ack, thr, wrk, auxvars2>>

AhdStop ==
  \E joined \in BOOLEAN :
    /\ fin.class = "AHDClient"
    /\ fin.calls < MaxStops
    /\ fin.exc = NoExc
    /\ FinStep(AHDClient_stop(fin, joined))

FixDisconnect ==
  /\ fin.class = "FixClient"
  /\ fin.calls < MaxStops
  /\ fin.exc = NoExc
  /\ FinStep(FixClient_disconnect(fin))

NextFin ==
  \/ FinSend
  \/ FinReceive
  \/ WorkersEnd
  \/ AhdStop
  \/ FixDisconnect

SpecFin == InitFin /\ [][NextFin]_vars

(* C25: a second stop() or disconnect() raises nothing and leaves the
   client as the first call left it: the stop flag set, the sockets closed
   and released, the queues released or empty. *)
StopTwiceSameAsOnce ==
  fin.calls >= 2 =>
    /\ fin.exc = NoExc
    /\ Released(fin) = fin.first
    /\ fin.stop_event
    /\ fin.socket = NoneObj
    /\ fin.recv_socket_pair = NoneObj
    /\ fin.send_queue \in {NoneObj, Queue(0)}
    /\ fin.receive_queue \in {NoneObj, Queue(0)}

(* C25 witness: an AHDClient with messages on both queues, stopped twice *)
WitnessStoppedTwice ==
  /\ fin.class = "AHDClient"
  /\ fin.calls = 2
  /\ fin.queued >= 2
  /\ fin.exc = NoExc

(* ============ ESP fixed-width fields (scapy_utils, ahd_msg) ============= *)
(* i2m is what a field writes for a value, m2i what it reads back. A str is
   NoText when None, an int NoInt; a price is a record: None, the literal
   "market", or a number held as the count of its 10^-D units (the source
   computes int(round(float(x) * factor)) and float(x) / factor; values
   here have at most D decimals, for which both are exact); a date or a
   time is the record of its parts, or NoneObj. *)
SP == 32

Spaces(n) == [i \in 1..n |-> SP]

(* x.ljust(n, pad), x.rjust(n, pad), x.zfill-like "{0:0nd}", x[:n] *)
ljust(x, n, pad) ==
  IF Len(x) >= n THEN x ELSE x \o [i \in 1..(n - Len(x)) |-> pad]

rjust(x, n, pad) ==
  IF Len(x) >= n THEN x ELSE [i \in 1..(n - Len(x)) |-> pad] \o x

Format0d(k, n) == rjust(str(k), n, 48)

UpTo(x, n) == SubSeq(x, 1, IF Len(x) < n THEN Len(x) ELSE n)

RECURSIVE rstrip(_, _)
rstrip(x, pad) ==
  IF x # << >> /\ x[Len(x)] = pad
  THEN rstrip(SubSeq(x, 1, Len(x) - 1), pad) ELSE x

RECURSIVE lstrip(_, _)
lstrip(x, pad) ==
  IF x # << >> /\ x[1] = pad THEN lstrip(Tail(x), pad) ELSE x

(* undefined_value, whose default is "" *)
undefined_value == << >>

(* RPaddedStrFixedLenField *)
RPadded_i2m(x, length) ==
  UpTo(ljust(IF x = NoText THEN undefined_value ELSE x, length, SP), length)

(* the read that strips the padding from the left *)
RPadded_m2i_lstrip(s) ==
  IF lstrip(s, SP) = undefined_value THEN NoText ELSE lstrip(s, SP)

RPadded_m2i(s) ==
  IF rstrip(s, SP) = undefined_value THEN NoText ELSE rstrip(s, SP)

(* LPaddedStrFixedLenField *)
LPadded_i2m(x, length) ==
  UpTo(rjust(IF x = NoText THEN undefined_value ELSE x, length, SP), length)

LPadded_m2i(s) ==
  IF lstrip(s, SP) = undefined_value THEN NoText ELSE lstrip(s, SP)

(* LPaddedAsciiIntFixedLenField *)
LPaddedAsciiInt_i2m(x, length) ==
  LPadded_i2m(IF x = NoInt THEN NoText ELSE str(x), length)

LPaddedAsciiInt_m2i(s) ==
  IF LPadded_m2i(s) = NoText THEN NoInt ELSE int(LPadded_m2i(s))

(* PriceField(integer_digits, decimal_digits) *)
PriceLength(I, D) == I + D + 1

Market == [price |-> "market"]
NoPrice == [price |-> "None"]
Number(k) == [price |-> "number", units |-> k]

MarketText(length) == <<48>> \o Spaces(length - 2)

PriceField_i2m(x, I, D) ==
  IF x = NoPrice THEN LPadded_i2m(NoText, PriceLength(I, D))
  ELSE IF x = Market
  THEN LPadded_i2m(MarketText(PriceLength(I, D)), PriceLength(I, D))
  ELSE LPadded_i2m(Format0d(x.units, D + 1), PriceLength(I, D))

PriceField_m2i(s, I, D) ==
  IF LPadded_m2i(s) = MarketText(PriceLength(I, D)) THEN Market
  ELSE IF LPadded_m2i(s) = NoText THEN NoPrice
  ELSE Number(int(LPadded_m2i(s)))

(* DateField: strftime("%Y%m%d") and strptime of it *)
DateField_i2m(x) ==
  IF x = NoneObj THEN Spaces(8)
  ELSE str(x.year) \o Format0d(x.month, 2) \o Format0d(x.day, 2)

DateField_m2i(s) ==
  IF s = Spaces(8) THEN NoneObj
  ELSE [year |-> int(SubSeq(s, 1, 4)), month |-> int(SubSeq(s, 5, 6)),
        day |-> int(SubSeq(s, 7, 8))]

(* strftime("%H%M%S%f") *)
strftime_HMSf(x) ==
  Format0d(x.hour, 2) \o Format0d(x.minute, 2) \o Format0d(x.second, 2)
    \o Format0d(x.microsecond, 6)

(* strptime(s, "%H%M%S%f") of twelve digits *)
strptime_HMSf(s) ==
  [hour |-> int(SubSeq(s, 1, 2)), minute |-> int(SubSeq(s, 3, 4)),
   second |-> int(SubSeq(s, 5, 6)), microsecond |-> int(SubSeq(s, 7, 12))]

(* TimeField12 *)
TimeField12_i2m(x) == IF x = NoneObj THEN Spaces(12) ELSE strftime_HMSf(x)

TimeField12_m2i(s) == IF s = Spaces(12) THEN NoneObj ELSE strptime_HMSf(s)

(* TimeField9 *)
TimeField9_i2m(x) ==
  IF x = NoneObj THEN Spaces(9) ELSE SubSeq(strftime_HMSf(x), 1, 9)

TimeField9_m2i(s) ==
  IF s = Spaces(9) THEN NoneObj
  ELSE strptime_HMSf(s \o <<48, 48, 48>>)

(* the declared number of bytes of a field *)
Width(f) ==
  IF f.kind = "PriceField" THEN PriceLength(f.I, f.D)
  ELSE IF f.kind = "DateField" THEN 8
  ELSE IF f.kind = "TimeField12" THEN 12
  ELSE IF f.kind = "TimeField9" THEN 9
  ELSE f.length

i2m(f, x) ==
  IF f.kind = "RPaddedStrFixedLenField" THEN RPadded_i2m(x, f.length)
  ELSE IF f.kind = "LPaddedStrFixedLenField" THEN LPadded_i2m(x, f.length)
  ELSE IF f.kind = "LPaddedAsciiIntFixedLenField"
  THEN LPaddedAsciiInt_i2m(x, f.length)
  ELSE IF f.kind = "PriceField" THEN PriceField_i2m(x, f.I, f.D)
  ELSE IF f.kind = "DateField" THEN DateField_i2m(x)
  ELSE IF f.kind = "TimeField12" THEN TimeField12_i2m(x)
  ELSE TimeField9_i2m(x)

m2i(f, s) ==
  IF f.kind = "RPaddedStrFixedLenField" THEN RPadded_m2i(s)
  ELSE IF f.kind = "LPaddedStrFixedLenField" THEN LPadded_m2i(s)
  ELSE IF f.kind = "LPaddedAsciiIntFixedLenField" THEN LPaddedAsciiInt_m2i(s)
  ELSE IF f.kind = "PriceField" THEN PriceField_m2i(s, f.I, f.D)
  ELSE IF f.kind = "DateField" THEN DateField_m2i(s)
  ELSE IF f.kind = "TimeField12" THEN TimeField12_m2i(s)
  ELSE TimeField9_m2i(s)

(* ---------------------- fields and their values ------------------------ *)
Strings ==
  { NoText, Text(<<"A">>), Text(<<"A", "B">>), Text(<<"1", "2", "3", "4", "5">>),
    <<65, SP, 66>> }

Times ==
  { [hour |-> h, minute |-> 5, second |-> 59, microsecond |-> us] :
      h \in {0, 23}, us \in {0, 7000, 123000, 999000} }

StringFieldValues ==
  {[f |-> [kind |-> k, length |-> 5], x |-> x] :
     k \in {"RPaddedStrFixedLenField", "LPaddedStrFixedLenField"},
     x \in Strings}

IntFieldValues ==
  {[f |-> [kind |-> "LPaddedAsciiIntFixedLenField", length |-> n],
    x |-> x] : n \in {5, 8}, x \in {NoInt, 0, 7, 10, 99999}}

PriceFieldValues ==
  {[f |-> [kind |-> "PriceField", I |-> 8, D |-> 4], x |-> x] :
     x \in {NoPrice, Market, Number(0), Number(5), Number(1012500),
            Number(999999999)}}

DateFieldValues ==
  {[f |-> [kind |-> "DateField"], x |-> x] :
     x \in {NoneObj, [year |-> 2026, month |-> 1, day |-> 9],
            [year |-> 1999, month |-> 12, day |-> 31]}}

TimeFieldValues ==
  {[f |-> [kind |-> "TimeField12"], x |-> x] :
     x \in Times \cup {NoneObj,
            [hour |-> 9, minute |-> 0, second |-> 0, microsecond |-> 123456]}}
  \cup {[f |-> [kind |-> "TimeField9"], x |-> x] : x \in Times \cup {NoneObj}}

(* ------------------------- building a message ------------------------- *)
(* A message to build is ESPCommon over a middle layer over a payload:
   x holds the three length fields as the caller left them (NoInt when
   not set) and the number of payload bytes. The other fields of a layer
   are written as blanks of their declared widths. *)

(* the f-string "{n:5d}" *)
Format5d(n) == rjust(str(n), 5, SP)

(* the widths of the fields after the length field *)
LayerRest(layer) ==
  IF layer = "OrderCommon" THEN 37
  ELSE IF layer = "AdminCommon" THEN 44
  ELSE 59

(* the bytes of the layer's own fields *)
self_build(length_field, rest) ==
  LPaddedAsciiInt_i2m(length_field, 5) \o Spaces(rest)

(* ESPCommon's own fields: MessageLength, 38 bytes up to DataAreaLength,
   DataAreaLength, 24 bytes after it *)
ESPCommon_self_build(MessageLength, DataAreaLength) ==
  LPaddedAsciiInt_i2m(MessageLength, 5) \o Spaces(38)
    \o LPaddedAsciiInt_i2m(DataAreaLength, 5) \o Spaces(24)

(* ESPCommon.post_build *)
ESPCommon_post_build(pkt, payload) ==
  Format5d(Len(pkt) + Len(payload) - 5) \o SubSeq(pkt, 6, 43)
    \o Format5d(Len(payload)) \o SubSeq(pkt, 49, Len(pkt)) \o payload

(* OrderCommon.post_build *)
OrderCommon_post_build(DataLen, pkt, payload) ==
  (IF DataLen = NoInt
   THEN Format5d(Len(pkt) + Len(payload) - 5) \o SubSeq(pkt, 6, Len(pkt))
   ELSE pkt) \o payload

(* AdminCommon.post_build *)
AdminCommon_post_build(DataLength, pkt, payload) ==
  (IF DataLength = NoInt
   THEN Format5d(Len(pkt) + Len(payload) - 5) \o SubSeq(pkt, 6, Len(pkt))
   ELSE pkt) \o payload

(* NoticeCommon.post_build *)
NoticeCommon_post_build(pkt, payload) ==
  Format5d(Len(pkt) + Len(payload) - 5) \o SubSeq(pkt, 6, Len(pkt))
    \o payload

(* the middle layer built over its payload *)
MiddleBuild(layer, x) ==
  IF layer = "OrderCommon"
  THEN OrderCommon_post_build(x.DataLength,
         self_build(x.DataLength, LayerRest(layer)), Spaces(x.payload))
  ELSE IF layer = "AdminCommon"
  THEN AdminCommon_post_build(x.DataLength,
         self_build(x.DataLength, LayerRest(layer)), Spaces(x.payload))
  ELSE NoticeCommon_post_build(
         self_build(x.DataLength, LayerRest(layer)), Spaces(x.payload))

(* bytes() of the whole message: the payload is built first, then each
   layer's post_build from the inside out *)
build(layer, x) ==
  ESPCommon_post_build(
    ESPCommon_self_build(x.MessageLength, x.DataAreaLength),
    MiddleBuild(layer, x))

PayloadSizes == {0, 16, 91}
Preset == {NoInt, 7}

Builds ==
  {[f |-> [kind |-> layer],
    x |-> [MessageLength |-> ml, DataAreaLength |-> dal, DataLength |-> dl,
           payload |-> n]] :
     layer \in {"OrderCommon", "AdminCommon", "NoticeCommon"},
     ml \in Preset, dal \in Preset, dl \in Preset, n \in PayloadSizes}

(* a field with a value to write, or a message to build *)
EspStart(task, values) ==
  esp \in {[task |-> task, f |-> v.f, x |-> v.x, stage |-> "value",
            m |-> << >>, i |-> << >>] : v \in values}

InitEsp ==
  /\ MainIdle
  /\ FixIdle
  /\ SessIdle
  /\ AuxIdleBut("esp")
  /\ \/ EspStart("field", StringFieldValues)
     \/ EspStart("field", IntFieldValues)
     \/ EspStart("field", PriceFieldValues)
     \/ EspStart("field", DateFieldValues)
     \/ EspStart("field", TimeFieldValues)
     \/ EspStart("build", Builds)

(* the field writes its value *)
FieldEncode ==
  /\ esp.task = "field"
  /\ esp.stage = "value"
  /\ esp' = [esp EXCEPT !.stage = "encoded", !.m = i2m(esp.f, esp.x)]
  /\ UNCHANGED <<mainvars, fixvars, sessvars, strm, arx, fin, ack, thr, wrk, auxvars2>>

(* the field reads what it wrote *)
FieldDecode ==
  /\ esp.task = "field"
  /\ esp.stage = "encoded"
  /\ esp' = [esp EXCEPT !.stage = "decoded", !.i = m2i(esp.f, esp.m)]
  /\ UNCHANGED <<mainvars, fixvars, sessvars, strm, arx, fin, ack, thr, wrk, auxvars2>>

(* bytes(msg) *)
Build ==
  /\ esp.task = "build"
  /\ esp.stage = "value"
  /\ esp' = [esp EXCEPT !.stage = "built", !.m = build(esp.f.kind, esp.x)]
  /\ UNCHANGED <<mainvars, fixvars, sessvars, strm, arx, fin, ack, thr, wrk, auxvars2>>

NextEsp ==
  \/ FieldEncode
  \/ FieldDecode
  \/ Build

SpecEsp == InitEsp /\ [][NextEsp]_vars

(* the null value of a field kind *)
IsNull(f, x) ==
  IF f.kind \in {"RPaddedStrFixedLenField", "LPaddedStrFixedLenField"}
  THEN x = NoText
  ELSE IF f.kind = "LPaddedAsciiIntFixedLenField" THEN x = NoInt
  ELSE IF f.kind = "PriceField" THEN x = NoPrice
  ELSE x = NoneObj

(* C27: every field kind writes exactly its declared number of bytes for
   every value, reads back the value it wrote, and writes the null value
   as blanks and reads blanks as null. *)
FieldRoundTrip ==
  /\ (esp.task = "field" /\ esp.stage \in {"encoded", "decoded"}) =>
       /\ Len(esp.m) = Width(esp.f)
       /\ IsNull(esp.f, esp.x) => esp.m = Spaces(Width(esp.f))
  /\ (esp.task = "field" /\ esp.stage = "decoded") => esp.i = esp.x

(* C27 witness: the literal "market" has gone through Price(8,4) *)
WitnessMarketRoundTrip ==
  /\ esp.task = "field"
  /\ esp.stage = "decoded"
  /\ esp.f.kind = "PriceField"
  /\ esp.x = Market
  /\ esp.m = <<SP, 48>> \o Spaces(11)

(* the three length fields as a reader of the built bytes finds them *)
BuiltMessageLength == LPaddedAsciiInt_m2i(SubSeq(esp.m, 1, 5))
BuiltDataAreaLength == LPaddedAsciiInt_m2i(SubSeq(esp.m, 44, 48))
BuiltDataLength == LPaddedAsciiInt_m2i(SubSeq(esp.m, 73, 77))

(* C26: in a built message MessageLength is the total number of bytes less
   5, DataAreaLength the number of bytes after ESPCommon, and the middle
   layer's DataLength / DataLen the bytes of that layer and its payload
   less 5, also when the caller had set one of them before the build. *)
LengthsAreByteCounts ==
  (esp.task = "build" /\ esp.stage = "built") =>
    /\ BuiltMessageLength = Len(esp.m) - 5
    /\ BuiltDataAreaLength = Len(esp.m) - 72
    /\ BuiltDataLength = Len(esp.m) - 72 - 5

(* ================== AHDClientChecker (ahd_utils.py) ==================== *)
(* The state is the record ack: the Order, the OrderAcceptanceNo of the
   acceptance notice the exchange sent, exc (what the last call raised),
   mxsim (the arguments of every mxsim.fill call, in order) and last (the
   last call and its keyword arguments). A notice is the record of the
   attributes the checker reads. *)

(* getattr(order, name) of one of the camelCase dataclass fields, which
   hold what the constructor was given *)
CamelField(o, name) == Get(o.ctor, name, None)

(* kwargs.setdefault(key, value) *)
setdefault(kwargs, key, value) ==
  IF key \in DOMAIN kwargs THEN kwargs ELSE kwargs @@ (key :> value)

(* AHDClientChecker._validate_notice_attributes over the expected values
   that are not None *)
_validate_notice_attributes(notice, expected) ==
  IF \A attr \in DOMAIN expected : notice[attr] = expected[attr]
  THEN NoExc ELSE "AssertionError"

(* the entry of the expected dict for a keyword that may be absent and
   falls back on an attribute of the order that may be None *)
Expect(attr, kwargs, key, o) ==
  IF key \in DOMAIN kwargs THEN attr :> kwargs[key]
  ELSE IF key \in DOMAIN o.ctor THEN attr :> o.ctor[key]
  ELSE << >>

(* AHDClientChecker.ordered: [o, exc] *)
AHDClientChecker_ordered(o, kwargs, notice) ==
  LET kw == setdefault(kwargs, "orderID2", notice.OrderAcceptanceNo)
      r == callback("ordered", o, kw)
  IN IF r.exc # NoExc THEN r
     ELSE [o |-> r.o,
           exc |-> _validate_notice_attributes(notice,
                     ("OrderAcceptanceNo" :> kw.orderID2)
                       @@ Expect("OrderQuantity", kw, "orderQty", r.o))]

(* the orderID2 that fill hands to mxsim.fill *)
fill_orderID2(o, kwargs) == Get(kwargs, "orderID2", CamelField(o, "orderID2"))

(* AHDClientChecker.fill after mxsim.fill was called: [o, exc] *)
AHDClientChecker_fill(o, kwargs, notice) ==
  LET kw == setdefault(setdefault(kwargs, "execPrice", notice.ExecutionPrice),
                       "execQty", notice.ExecutedQuantity)
      r == callback("fill", o, kw)
  IN IF r.exc # NoExc THEN r
     ELSE [o |-> r.o,
           exc |-> _validate_notice_attributes(notice,
                     (IF "orderID2" \in DOMAIN kw
                      THEN "OrderAcceptanceNo" :> kw.orderID2 ELSE << >>)
                       @@ ("ExecutionPrice" :> kw.execPrice)
                       @@ ("ExecutedQuantity" :> kw.execQty))]

AckCtorArgs ==
  { [security |-> "BABA", side |-> "B", orderQty |-> 3, orderPrice |-> 100],
    [security |-> "BABA", side |-> "B", order_qty |-> 3, order_price |-> 100],
    [security |-> "BABA", side |-> "B", orderQty |-> 3, orderPrice |-> 100,
     orderID2 |-> "A1"] }

AcceptanceNos == {"A1", "A2"}

AckOrderedKwargs ==
  {EmptyDict, [orderID2 |-> "A1"], [orderQty |-> 3]}

AckFillKwargs ==
  {[execQty |-> q, execPrice |-> 101] : q \in {1, 2}}
  \cup {[execQty |-> 1, execPrice |-> 101, orderID2 |-> n] : n \in AcceptanceNos}

InitAck ==
  /\ MainIdle
  /\ FixIdle
  /\ SessIdle
  /\ AuxIdleBut("ack")
  /\ ack \in {[o |-> __post_init__(a), notice |-> None, accepted |-> FALSE,
               exc |-> NoExc, mxsim |-> << >>,
               last |-> [op |-> "init", kw |-> EmptyDict]] : a \in AckCtorArgs}

AckStep(r, a) ==
  /\ ack' = [a EXCEPT !.o = r.o, !.exc = r.exc]
  /\ UNCHANGED <<mainvars, fixvars, sessvars, strm, arx, fin, esp, thr, wrk, auxvars2>>

(* order.ordered(...): the exchange's NewOrderAcceptanceNotice is read *)
AckOrdered ==
  \E no \in AcceptanceNos, kw \in AckOrderedKwargs :
    /\ ~ack.accepted
    /\ ack.exc = NoExc
    /\ AckStep(AHDClientChecker_ordered(ack.o, kw,
                 [OrderAcceptanceNo |-> no, OrderQuantity |-> 3]),
               [ack EXCEPT !.notice = no, !.accepted = TRUE,
                           !.last = [op |-> "ordered", kw |-> kw]])

(* order.fill(...): mxsim.fill is called, then the exchange's
   ExecutionCompletionNotice for this order is read *)
AckFill ==
  \E kw \in AckFillKwargs :
    /\ ack.accepted
    /\ ack.exc = NoExc
    /\ Len(ack.mxsim) < MaxFills
    /\ AckStep(AHDClientChecker_fill(ack.o, kw,
                 [OrderAcceptanceNo |-> ack.notice,
                  ExecutionPrice |-> kw.execPrice,
                  ExecutedQuantity |-> kw.execQty]),
               [ack EXCEPT !.mxsim = Append(@,
                              [orderID2 |-> fill_orderID2(ack.o, kw),
                               execQty |-> kw.execQty,
                               execPrice |-> kw.execPrice]),
                           !.last = [op |-> "fill", kw |-> kw]])

NextAck ==
  \/ AckOrdered
  \/ AckFill

SpecAck == InitAck /\ [][NextAck]_vars

(* C28: once ordered has accepted the order, the order's orderID2 is the
   OrderAcceptanceNo of the acceptance notice, and a fill given no orderID2
   has called the exchange simulator with that OrderAcceptanceNo. *)
FillUsesAcceptanceNo ==
  (ack.accepted /\ ack.exc = NoExc) =>
    /\ ack.o.order_id2 = ack.notice
    /\ (ack.last.op = "fill" /\ "orderID2" \notin DOMAIN ack.last.kw) =>
         ack.mxsim[Len(ack.mxsim)].orderID2 = ack.notice

(* the status, quantities and identifiers of an order *)
OrderFacts(o) ==
  <<o.order_status, o.order_qty, o.exec_qty, o.cl_ord_id, o.dest_cl_ord_id,
    o.order_id2>>

(* the notice that the last call read differs from the expected orderID2 *)
AckMismatch(a) ==
  /\ a.last.op \in {"ordered", "fill"}
  /\ "orderID2" \in DOMAIN a.last.kw
  /\ a.last.kw.orderID2 # a.notice

(* C37: a checker's ordered() or fill() that finds a response field
   different from the expected value raises an error, and leaves the
   order's status, quantities and identifiers as they were before the
   call (here for AHDClientChecker). *)
MismatchLeavesOrder ==
  [][AckMismatch(ack') =>
       /\ ack'.exc = "AssertionError"
       /\ OrderFacts(ack'.o) = OrderFacts(ack.o)]_vars

(* ============ AHDClient.send_msg from two caller threads =============== *)
(* The state is the record thr: the two counters of the client, the send
   queue, and for each caller thread t its position in send_msg (pc), the
   message it is preparing (msg) and the number of messages it has queued
   (sent). _prepare_msg takes no lock, so a thread may be preempted
   between any two of its statements; each statement that reads or writes
   a counter is one step. *)

Callers == {"t1", "t2"}

(* what the two callers hand to send_msg *)
CallerMessages ==
  { Message({"NewOrder"}, NoInt, NoInt),
    Message({"OpStart"}, NoInt, NoInt) }

(* the common-layer loop of _prepare_msg *)
_prepare_msg_layers(msg) ==
  [msg EXCEPT !.layers = Wrap(Wrap(Wrap(@,
                   "AdminCommonOU", AdminCommonOULayers),
                   "OrderCommonO", OrderCommonOLayers),
                   "ESPCommon", ESPCommonLayers)]

(* if esp_layer.SeqNo is None: esp_layer.SeqNo = self.last_sent_seq_no + 1 *)
_prepare_msg_SeqNo(c, msg) ==
  IF msg.SeqNo = NoInt THEN [msg EXCEPT !.SeqNo = c.last_sent_seq_no + 1]
  ELSE msg

(* self.last_sent_seq_no = esp_layer.SeqNo *)
_prepare_msg_store_SeqNo(c, msg) == [c EXCEPT !.last_sent_seq_no = msg.SeqNo]

CarriesOrderCommon(msg) == msg.layers \cap {"OrderCommonO", "OrderCommonQ"} # {}

(* if msg[layer].OrderEntrySeqNo is None: ... = last_sent_order_entry_seq_no + 1 *)
_prepare_msg_OrderEntrySeqNo(c, msg) ==
  IF CarriesOrderCommon(msg) /\ msg.OrderEntrySeqNo = NoInt
  THEN [msg EXCEPT !.OrderEntrySeqNo = c.last_sent_order_entry_seq_no + 1]
  ELSE msg

(* if layer is OrderCommonO: self.last_sent_order_entry_seq_no = ... *)
_prepare_msg_store_OrderEntrySeqNo(c, msg) ==
  IF "OrderCommonO" \in msg.layers
  THEN [c EXCEPT !.last_sent_order_entry_seq_no = msg.OrderEntrySeqNo]
  ELSE c

InitThr ==
  /\ MainIdle
  /\ FixIdle
  /\ SessIdle
  /\ AuxIdleBut("thr")
  /\ thr = [last_sent_seq_no |-> 0, last_sent_order_entry_seq_no |-> 0,
            send_queue |-> << >>,
            t |-> [c \in Callers |->
                     [pc |-> "idle", msg |-> Message({}, NoInt, NoInt),
                      sent |-> 0]]]

ThrStep(c) ==
  /\ thr' = c
  /\ UNCHANGED <<mainvars, fixvars, sessvars, strm, arx, fin, esp, ack, wrk, auxvars2>>

At(c, pc) == thr.t[c].pc = pc

(* a caller enters send_msg and _prepare_msg adds the common layers *)
ThrCall ==
  \E c \in Callers, m \in CallerMessages :
    /\ At(c, "idle")
    /\ thr.t[c].sent < MaxSends
    /\ ThrStep([thr EXCEPT !.t[c].pc = "SeqNo",
                           !.t[c].msg = _prepare_msg_layers(m)])

ThrSeqNo ==
  \E c \in Callers :
    /\ At(c, "SeqNo")
    /\ ThrStep([thr EXCEPT !.t[c].pc = "store_SeqNo",
                           !.t[c].msg = _prepare_msg_SeqNo(thr, @)])

ThrStoreSeqNo ==
  \E c \in Callers :
    /\ At(c, "store_SeqNo")
    /\ ThrStep([_prepare_msg_store_SeqNo(thr, thr.t[c].msg)
                  EXCEPT !.t[c].pc = "OrderEntrySeqNo"])

ThrOrderEntrySeqNo ==
  \E c \in Callers :
    /\ At(c, "OrderEntrySeqNo")
    /\ ThrStep([thr EXCEPT !.t[c].pc = "store_OrderEntrySeqNo",
                           !.t[c].msg = _prepare_msg_OrderEntrySeqNo(thr, @)])

ThrStoreOrderEntrySeqNo ==
  \E c \in Callers :
    /\ At(c, "store_OrderEntrySeqNo")
    /\ ThrStep([_prepare_msg_store_OrderEntrySeqNo(thr, thr.t[c].msg)
                  EXCEPT !.t[c].pc = "put"])

(* self.send_queue.put(prepared_msg) *)
ThrPut ==
  \E c \in Callers :
    /\ At(c, "put")
    /\ ThrStep([thr EXCEPT !.send_queue = Append(@, thr.t[c].msg),
                           !.t[c].pc = "idle",
                           !.t[c].sent = @ + 1])

NextThr ==
  \/ ThrCall
  \/ ThrSeqNo
  \/ ThrStoreSeqNo
  \/ ThrOrderEntrySeqNo
  \/ ThrStoreOrderEntrySeqNo
  \/ ThrPut

SpecThr == InitThr /\ [][NextThr]_vars

(* C29: the messages queued by the caller threads carry distinct SeqNo
   values, distinct OrderEntrySeqNo values when both carry OrderCommonO,
   and stand on the send queue in increasing SeqNo order. *)
ConcurrentSendsDistinctAndOrdered ==
  \A i, j \in 1..Len(thr.send_queue) :
    i < j =>
      /\ thr.send_queue[i].SeqNo < thr.send_queue[j].SeqNo
      /\ ("OrderCommonO" \in thr.send_queue[i].layers
            /\ "OrderCommonO" \in thr.send_queue[j].layers) =>
           thr.send_queue[i].OrderEntrySeqNo # thr.send_queue[j].OrderEntrySeqNo

(* ================= stress workers: latency sampling ==================== *)
(* The state is the record wrk: the worker's kind ("thread" for
   stress_fix_multithread.worker over FixClient, "asyncio" for
   stress_fix_asyncio.worker over AsyncFixClient), its options, its
   position (pc, the index i of the order in hand, deadline, get_until),
   the clock now, the client's receive queue, the latency samples, and per
   order the history the properties read: whether it was sampled, when its
   wait began and ended and when its ExecutionReport reached the client.
   Time is counted in ticks of 0.1 s; only a blocked queue get lets it
   pass. *)

(* receive_message(timeout=0.2), in ticks *)
POLL == 2

(* ack_timeout_s, in ticks *)
AckTimeouts == {1, 3}

WorkerKinds == {"thread", "asyncio"}

(* the ClOrdID of the i-th order of the worker *)
cl_id(i) == Text(<<"C">>) \o str(i)

(* the ExecutionReport the server answers the i-th order with *)
ExecutionReport(i) ==
  FixCodec_dict_to_fix((8 :> FIX44) @@ (35 :> Text(<<"8">>))
                         @@ (11 :> cl_id(i)) @@ (39 :> Text(<<"0">>))).frame

(* should_sample *)
should_sample(w, i) ==
  w.measure_latency /\ w.latency_sample_every >= 1
    /\ i % w.latency_sample_every = 0

(* the timeout handed to receive_message *)
receive_timeout(w) ==
  IF w.kind = "thread" THEN POLL
  ELSE IF w.deadline - w.now < POLL THEN w.deadline - w.now ELSE POLL

(* what the client's receive loop puts on its queue for one chunk *)
Received(w, chunk) ==
  IF w.kind = "thread"
  THEN ProcessBuffer([FixClient__init__ EXCEPT
                        !.receive_queue = w.receive_queue], chunk).receive_queue
  ELSE w.receive_queue \o _extract_complete_messages(chunk, << >>).messages

(* receive_message on a queue that holds something *)
receive_message(w) ==
  IF w.kind = "thread" THEN FixClient_fix_to_dict(Head(w.receive_queue)).dict
  ELSE AsyncFixClient_fix_to_dict(Head(w.receive_queue)).dict

(* msg and msg.get("35") == "8" and msg.get("11") == cl_id *)
Matches(msg, i) ==
  /\ DOMAIN msg # {}
  /\ TagOf(msg, 35) = Text(<<"8">>)
  /\ TagOf(msg, 11) = cl_id(i)

Orders == 0..(MaxMessages - 1)

InitWrk ==
  /\ MainIdle
  /\ FixIdle
  /\ SessIdle
  /\ AuxIdleBut("wrk")
  /\ \E kind \in WorkerKinds, to \in AckTimeouts, every \in 1..2,
        measure \in BOOLEAN :
       wrk = [kind |-> kind, ack_timeout |-> to,
              latency_sample_every |-> every, measure_latency |-> measure,
              pc |-> "send", i |-> 0, now |-> 0, send_ts |-> 0,
              deadline |-> 0, get_until |-> 0,
              receive_queue |-> << >>, latencies |-> << >>,
              order |-> [j \in Orders |->
                           [sampled |-> FALSE, wait_start |-> NoInt,
                            wait_end |-> NoInt, arrived |-> NoInt]]]

WrkStep(w) ==
  /\ wrk' = w
  /\ UNCHANGED <<mainvars, fixvars, sessvars, strm, arx, fin, esp, ack, thr, auxvars2>>

(* the next pass of the for loop, or its end *)
NextOrder(w) ==
  [w EXCEPT !.i = @ + 1,
            !.pc = IF w.i + 1 < MaxMessages THEN "send" ELSE "done"]

(* send_message of the i-th order, and the deadline if it is sampled *)
WrkSend ==
  /\ wrk.pc = "send"
  /\ WrkStep(IF should_sample(wrk, wrk.i)
             THEN [wrk EXCEPT !.send_ts = wrk.now,
                              !.deadline = wrk.now + wrk.ack_timeout,
                              !.pc = "wait",
                              !.order[wrk.i].sampled = TRUE,
                              !.order[wrk.i].wait_start = wrk.now]
             ELSE NextOrder([wrk EXCEPT !.send_ts = wrk.now]))

(* the ExecutionReport of an order already sent reaches the client *)
WrkArrive ==
  \E j \in Orders :
    /\ j < wrk.i \/ (j = wrk.i /\ wrk.pc # "send")
    /\ wrk.order[j].arrived = NoInt
    /\ WrkStep([wrk EXCEPT !.receive_queue = Received(wrk, ExecutionReport(j)),
                           !.order[j].arrived = wrk.now])

(* the loop test of the wait: leave at the deadline, else call
   receive_message *)
WrkLoop ==
  /\ wrk.pc = "wait"
  /\ WrkStep(IF wrk.now < wrk.deadline
             THEN [wrk EXCEPT !.pc = "get",
                              !.get_until = wrk.now + receive_timeout(wrk)]
             ELSE NextOrder([wrk EXCEPT !.order[wrk.i].wait_end = wrk.now]))

(* receive_message returns a message: a sample and break when it matches *)
WrkGet ==
  /\ wrk.pc = "get"
  /\ wrk.receive_queue # << >>
  /\ LET w == [wrk EXCEPT !.receive_queue = Tail(@)]
     IN WrkStep(IF Matches(receive_message(wrk), wrk.i)
                THEN NextOrder([w EXCEPT
                       !.latencies = Append(@, [i |-> wrk.i,
                                      latency |-> wrk.now - wrk.send_ts]),
                       !.order[wrk.i].wait_end = wrk.now])
                ELSE [w EXCEPT !.pc = "wait"])

(* the get blocks on the empty queue *)
WrkTick ==
  /\ wrk.pc = "get"
  /\ wrk.receive_queue = << >>
  /\ wrk.now < wrk.get_until
  /\ WrkStep([wrk EXCEPT !.now = @ + 1])

(* receive_message returns None after its timeout *)
WrkTimeout ==
  /\ wrk.pc = "get"
  /\ wrk.receive_queue = << >>
  /\ wrk.now = wrk.get_until
  /\ WrkStep([wrk EXCEPT !.pc = "wait"])

NextWrk ==
  \/ WrkSend
  \/ WrkArrive
  \/ WrkLoop
  \/ WrkGet
  \/ WrkTick
  \/ WrkTimeout

SpecWrk == InitWrk /\ [][NextWrk]_vars

Samples(j) ==
  Cardinality({k \in 1..Len(wrk.latencies) : wrk.latencies[k].i = j})

(* C30: with latency measurement on, a sampled order whose ExecutionReport
   reached the client before ack_timeout has exactly one latency sample
   once its wait is over, and the wait of a sampled order ends at
   ack_timeout at the latest. *)
SampledOrderYieldsOneSample ==
  wrk.measure_latency =>
    \A j \in Orders :
      (wrk.order[j].sampled /\ wrk.order[j].wait_end # NoInt) =>
        /\ wrk.order[j].wait_end <= wrk.order[j].wait_start + wrk.ack_timeout
        /\ (/\ wrk.order[j].arrived # NoInt
            /\ wrk.order[j].arrived < wrk.order[j].wait_start + wrk.ack_timeout)
             => Samples(j) = 1

(* ================== Order.pop_modify on a given history ================ *)
(* The state is the record hq: the history before the call (before), the
   history the call left (queue), the restore argument and what the call
   raised. Every entry of a given history holds order_qty; order_price and
   cl_ord_id are held by all of its entries or by none. *)

HistoryKeys ==
  { {"order_qty"}, {"order_qty", "order_price"}, {"order_qty", "cl_ord_id"},
    {"order_qty", "order_price", "cl_ord_id"} }

(* the entries over a key set: quantities 1..3, prices 100..101 and, for
   cl_ord_id, the character codes of "A" and "B" *)
HistoryEntries(keys) ==
  { e \in [keys -> {1, 2, 3, 100, 101, 65, 66}] :
      /\ e.order_qty \in 1..3
      /\ "order_price" \in keys => e.order_price \in 100..101
      /\ "cl_ord_id" \in keys => e.cl_ord_id \in 65..66 }

InitPop ==
  /\ MainIdle
  /\ FixIdle
  /\ SessIdle
  /\ AuxIdleBut("hq")
  /\ \E keys \in HistoryKeys, n \in 2..MaxHistory :
       \E h \in [1..n -> HistoryEntries(keys)] :
         hq = [before |-> h, queue |-> h, op |-> "init",
               restore |-> FALSE, exc |-> NoExc]

(* order.pop_modify(restore) *)
PopModify ==
  \E restore \in BOOLEAN :
    /\ hq.op = "init"
    /\ LET r == pop_modify([queue |-> hq.queue], restore)
       IN hq' = [hq EXCEPT !.queue = r.o.queue, !.op = "pop_modify",
                           !.restore = restore, !.exc = r.exc]
    /\ UNCHANGED <<mainvars, fixvars, sessvars, auxvars, lv, fo>>

NextPop == PopModify

SpecPop == InitPop /\ [][NextPop]_vars

(* C31: pop_modify(restore=true) on a history h0..hn leaves n entries; the
   front holds h0's order_qty and order_price, every later entry hi holds
   hi - (h1 - h0), and cl_ord_id is reset to h0's value at the front only. *)
PopRestoreKeepsOffsets ==
  (hq.op = "pop_modify" /\ hq.restore) =>
    LET h == hq.before
        q == hq.queue
    IN /\ hq.exc = NoExc
       /\ Len(q) = Len(h) - 1
       /\ \A a \in DOMAIN h[1] \cap {"order_qty", "order_price"} :
            /\ q[1][a] = h[1][a]
            /\ \A i \in 2..Len(q) : q[i][a] = h[i + 1][a] - (h[2][a] - h[1][a])
       /\ "cl_ord_id" \in DOMAIN h[1] =>
            /\ q[1].cl_ord_id = h[1].cl_ord_id
            /\ \A i \in 2..Len(q) : q[i].cl_ord_id = h[i + 1].cl_ord_id

(* C31 witness: a restore over three entries whose second entry changed
   order_qty and cl_ord_id *)
WitnessRestoreShiftsLaterEntry ==
  /\ hq.op = "pop_modify" /\ hq.restore
  /\ Len(hq.before) = 3
  /\ "cl_ord_id" \in DOMAIN hq.before[1]
  /\ hq.before[2].order_qty # hq.before[1].order_qty
  /\ hq.before[2].cl_ord_id # hq.before[1].cl_ord_id
  /\ hq.queue[2].order_qty # hq.before[3].order_qty

(* ============ InternalProcessing of successive NewOrder sends ========== *)
(* SpecInt drives the AHDClient record ahd with NewOrder messages, with and
   without an InternalProcessing of the caller's, for the default prefix
   and for a prefix that ends in a digit. *)

Prefixes == {VIRTUA, Text(<<"A", "B", "9">>)}

InternalMessages ==
  { Message({"NewOrder"}, NoInt, NoInt),
    [Message({"NewOrder"}, NoInt, NoInt)
       EXCEPT !.InternalProcessing = Text(<<"X", "1">>)],
    Message({"OpStart"}, NoInt, NoInt) }

InitInt ==
  /\ AuxIdleBut("")
  /\ MainIdle
  /\ FixIdle
  /\ codec = CodecRest
  /\ cli = FixClient__init__
  /\ \E prefix \in Prefixes : ahd = AHDClient(prefix)

(* send_msg of a NewOrder or of another message *)
SendOrder ==
  \E msg \in InternalMessages :
    /\ Running
    /\ AhdStep(send_msg(ahd, msg),
               [op |-> "send_msg", msg |-> msg,
                before |-> ahd.last_sent_internal])

NextInt ==
  \/ SendOrder
  \/ SendLoopSend

SpecInt == InitInt /\ [][NextInt]_vars

(* the last four characters of an ID read as a number, and the rest *)
Tail4(id) == int(SubSeq(id, Len(id) - 3, Len(id)))
Front(id) == SubSeq(id, 1, Len(id) - 4)

(* C34: the IDs generated for NewOrder sends without InternalProcessing
   are pairwise distinct, 20 characters long, start with the configured
   prefix, and each has a numeric tail one greater than the one before;
   a send with an InternalProcessing of its own leaves last_sent_internal
   as it was. *)
InternalProcessingIncrements ==
  /\ \A i \in 1..Len(ahd.generated) :
       LET id == ahd.generated[i]
           previous == IF i = 1 THEN AHDClient(ahd.prefix).last_sent_internal
                       ELSE ahd.generated[i - 1]
       IN /\ Len(id) = 20
          /\ SubSeq(id, 1, Len(ahd.prefix)) = ahd.prefix
          /\ Front(id) = Front(previous)
          /\ Tail4(id) = Tail4(previous) + 1
          /\ \A j \in 1..Len(ahd.generated) :
               j # i => ahd.generated[j] # id
  /\ (ahd.last_op.op = "send_msg"
        /\ ahd.last_op.msg.InternalProcessing # NoText) =>
       ahd.last_sent_internal = ahd.last_op.before
  /\ \A i \in 1..Len(ahd.prepared) :
       "NewOrder" \in ahd.prepared[i].layers =>
         ahd.prepared[i].InternalProcessing # NoText

(* C34 witness: a generated ID, a send with the caller's ID, and a second
   generated ID, under the prefix that ends in a digit *)
WitnessSecondGeneratedId ==
  /\ ahd.prefix # VIRTUA
  /\ Len(ahd.generated) = 2
  /\ Len(ahd.prepared) = 3
  /\ ahd.prepared[2].InternalProcessing = Text(<<"X", "1">>)
  /\ ahd.prepared[3].InternalProcessing = ahd.generated[2]

(* ============ the two workers of an AHDClient that is stopped ========== *)
(* The state is the record lv: stop (where the thread that called stop()
   is), the stop event, the send queue (of "msg" and "None"), puts (how
   many messages callers queued), sender and receiver (where each worker
   is), left (units of the message in hand still to write), room (units
   the socket takes before send blocks), avail (units the socket holds to
   read), pair (a byte on the signalling socket pair) and socket ("open",
   or "None" once stop() closed it and reset the attribute).
   The socket is blocking: start() sets no timeout on it. A frame is two
   units, its header and its rest; a message is two units. What a send or
   recv that is blocked does when another thread closes the socket depends
   on the platform: it may fail, or stay blocked. *)

InitLive ==
  /\ MainIdle
  /\ FixIdle
  /\ SessIdle
  /\ AuxIdleBut("lv")
  /\ lv = [stop |-> "not called", stop_event |-> FALSE,
           _heartbeats_allowed |-> TRUE, send_queue |-> << >>, puts |-> 0,
           sender |-> "while", left |-> 0, room |-> MaxBytes,
           receiver |-> "while", avail |-> 0, pair |-> FALSE,
           socket |-> "open"]

LiveStep(l) ==
  /\ lv' = l
  /\ UNCHANGED <<mainvars, fixvars, sessvars, auxvars, hq, fo>>

(* ------------------------------ _send_loop ----------------------------- *)
(* while not self._stop_event.is_set() *)
SenderWhile ==
  /\ lv.sender = "while"
  /\ LiveStep([lv EXCEPT !.sender = IF lv.stop_event THEN "done" ELSE "get"])

(* send_queue.get(timeout=1) returns a message *)
SenderGetMsg ==
  /\ lv.sender = "get"
  /\ IF lv.send_queue = << >> THEN FALSE ELSE Head(lv.send_queue) = "msg"
  /\ LiveStep([lv EXCEPT !.send_queue = Tail(@), !.sender = "send",
                         !.left = 2])

(* get returns None, or raises Empty, or the queue attribute is None: a
   Heartbeat is written when heartbeats are allowed and due *)
SenderGetNone ==
  \E due \in BOOLEAN :
    /\ lv.sender = "get"
    /\ IF lv.send_queue = << >> THEN TRUE ELSE Head(lv.send_queue) = "None"
    /\ LiveStep([lv EXCEPT
         !.send_queue = IF @ = << >> THEN @ ELSE Tail(@),
         !.sender = IF lv._heartbeats_allowed /\ due
                    THEN "send" ELSE "while",
         !.left = IF lv._heartbeats_allowed /\ due THEN 2 ELSE @])

(* while total_sent < len(msg_bytes) and not stop_event: the call of
   self.socket.send raises AttributeError when the attribute is None *)
SenderSendTest ==
  /\ lv.sender = "send"
  /\ LiveStep([lv EXCEPT !.sender =
       IF lv.left = 0 \/ lv.stop_event THEN "while"
       ELSE IF lv.socket = "None" THEN "done"
       ELSE "in send"])

(* socket.send returns once the socket takes a unit *)
SenderSent ==
  /\ lv.sender = "in send"
  /\ lv.room > 0
  /\ LiveStep([lv EXCEPT !.sender = "send", !.left = @ - 1, !.room = @ - 1])

(* the blocked send fails after the socket was closed *)
SenderSendFails ==
  /\ lv.sender = "in send"
  /\ lv.socket = "None"
  /\ LiveStep([lv EXCEPT !.sender = "done"])

(* ----------------------------- _receive_loop --------------------------- *)
ReceiverWhile ==
  /\ lv.receiver = "while"
  /\ LiveStep([lv EXCEPT !.receiver =
       IF lv.stop_event THEN "done" ELSE "poll"])

(* poller.poll(1000): no event, the byte of stop(), or data *)
ReceiverPoll ==
  /\ lv.receiver = "poll"
  /\ LiveStep([lv EXCEPT !.receiver =
       IF lv.pair THEN "done"
       ELSE IF lv.avail > 0 THEN "header"
       ELSE "while"])

(* _receive_exact(header_size): the loop test, then the call of recv *)
ReceiverHeaderTest ==
  /\ lv.receiver = "header"
  /\ LiveStep([lv EXCEPT !.receiver =
       IF lv.stop_event \/ lv.socket = "None" THEN "done"
       ELSE "in recv header"])

ReceiverHeaderRead ==
  /\ lv.receiver = "in recv header"
  /\ lv.avail > 0
  /\ LiveStep([lv EXCEPT !.receiver = "rest", !.avail = @ - 1])

(* _receive_exact(remaining_size) *)
ReceiverRestTest ==
  /\ lv.receiver = "rest"
  /\ LiveStep([lv EXCEPT !.receiver =
       IF lv.stop_event \/ lv.socket = "None" THEN "done"
       ELSE "in recv rest"])

(* the rest arrives; the frame is handled and the loop starts over *)
ReceiverRestRead ==
  /\ lv.receiver = "in recv rest"
  /\ lv.avail > 0
  /\ LiveStep([lv EXCEPT !.receiver = "while", !.avail = @ - 1])

(* the blocked recv fails after the socket was closed *)
ReceiverRecvFails ==
  /\ lv.receiver \in {"in recv header", "in recv rest"}
  /\ lv.socket = "None"
  /\ LiveStep([lv EXCEPT !.receiver = "done"])

(* ------------------------- the caller and the peer --------------------- *)
(* send_msg puts a message on the queue *)
CallerPut ==
  /\ lv.stop = "not called"
  /\ lv.puts < MaxPuts
  /\ LiveStep([lv EXCEPT !.send_queue = Append(@, "msg"), !.puts = @ + 1])

(* the peer sends a unit of a frame *)
PeerSends ==
  /\ lv.avail < MaxBytes
  /\ LiveStep([lv EXCEPT !.avail = @ + 1])

(* the peer reads, which lets the socket take a unit more *)
PeerReads ==
  /\ lv.room < MaxBytes
  /\ LiveStep([lv EXCEPT !.room = @ + 1])

(* ---------------------------------- stop ------------------------------- *)
(* stop() up to the joins: the event, None on the queue, the byte on the
   socket pair *)
StopSignal ==
  /\ lv.stop = "not called"
  /\ LiveStep([lv EXCEPT !.stop = "join", !._heartbeats_allowed = FALSE,
                         !.stop_event = TRUE,
                         !.send_queue = Append(@, "None"),
                         !.pair = TRUE])

(* the joins end, each after 2 s at the latest; the sockets are closed and
   the attributes set to None *)
StopCleanUp ==
  /\ lv.stop = "join"
  /\ LiveStep([lv EXCEPT !.stop = "returned", !.socket = "None",
                         !.send_queue = << >>])

SenderStep ==
  \/ SenderWhile
  \/ SenderGetMsg
  \/ SenderGetNone
  \/ SenderSendTest
  \/ SenderSent

ReceiverStep ==
  \/ ReceiverWhile
  \/ ReceiverPoll
  \/ ReceiverHeaderTest
  \/ ReceiverHeaderRead
  \/ ReceiverRestTest
  \/ ReceiverRestRead

StopStep ==
  \/ StopSignal
  \/ StopCleanUp

NextLive ==
  \/ SenderStep
  \/ ReceiverStep
  \/ StopStep
  \/ SenderSendFails
  \/ ReceiverRecvFails
  \/ CallerPut
  \/ PeerSends
  \/ PeerReads

(* the threads are scheduled: a worker that can take a step takes one,
   and stop(), once called, runs on. The peer owes nothing, and neither
   does a platform that leaves a blocked call blocked. *)
SpecLive ==
  /\ InitLive
  /\ [][NextLive]_vars
  /\ WF_vars(SenderStep)
  /\ WF_vars(ReceiverStep)
  /\ WF_vars(StopCleanUp)

(* C36: once stop() is called, the sender worker and the receiver worker
   both terminate in the end, whether idle, in the middle of writing a
   message, or waiting for the rest of a frame. *)
WorkersTerminateAfterStop ==
  (lv.stop # "not called") ~> (lv.sender = "done" /\ lv.receiver = "done")

(* ================= the camelCase attributes of an Order ================ *)
(* the aliased attributes an Order can be read under *)
CamelNames ==
  {"orderQty", "execQty", "orderPrice", "clOrdID", "destClOrdID", "orderID2",
   "timeInForce", "orderStatus"}

(* Python's == between two attribute values, one of which may be None while
   the other is a number, is the equality of their printed forms. *)

(* C38: in every reachable state of an Order, reading an aliased attribute
   under its camelCase name yields the same value as reading it under its
   snake_case name, also after modify, fill and ordered have changed the
   snake_case value. *)
CamelReadsAsSnake ==
  \A c \in CamelNames :
    ToString(CamelField(order, c)) = ToString(order[alias_map[c]])

(* ================== a checker and the orders it holds ================== *)
(* The state is the record fo: orders (checker.orders, in the order of
   their construction), lists (for each order the identity of the list
   that is its queue), pending (for each order the modify and cancel
   requests not answered yet), order_hashes (checker.order_hashes), nops
   and last (the last call, with the result of a find_order_by). An order
   is referred to by its position in checker.orders, None by 0. *)

(* field(default_factory=lambda: [{}]): the identity of the list that the
   order constructed after n others gets as its queue, a new list *)
default_factory_shared(n) == 1

default_factory(n) == n + 1

(* the hash map find_order_by builds: a later order replaces an earlier
   one under the same key *)
hash_map(orders, attribute) ==
  [k \in {orders[i][attribute] : i \in DOMAIN orders} |->
     CHOOSE i \in DOMAIN orders :
       /\ orders[i][attribute] = k
       /\ \A j \in DOMAIN orders : orders[j][attribute] = k => j <= i]

(* GenericChecker.find_order_by: [order_hashes, result] *)
find_order_by(order_hashes, orders, attribute, value) ==
  LET hashes == IF attribute \in DOMAIN order_hashes THEN order_hashes
                ELSE order_hashes @@ (attribute :> hash_map(orders, attribute))
  IN [order_hashes |-> hashes,
      result |-> Get(hashes[attribute], value, 0)]

BookCtorArgs ==
  {[security |-> "BABA", side |-> "B", order_qty |-> 3, order_price |-> 100,
    cl_ord_id |-> "A"],
   [security |-> "BABA", side |-> "B", order_qty |-> 2, order_price |-> 100,
    cl_ord_id |-> "B"]}

Requests == {"modify", "cancel"}
Answers == {"modified", "mod_reject", "canceled", "cxl_reject"}

BookKwargs(op) ==
  IF op = "modify" THEN {[clOrdID |-> "C"]}
  ELSE IF op = "fill" THEN {[execQty |-> 1]}
  ELSE {EmptyDict}

FindValues(attribute) ==
  IF attribute = "cl_ord_id" THEN {"A", "C"} ELSE {3}

InitBook ==
  /\ MainIdle
  /\ FixIdle
  /\ SessIdle
  /\ AuxIdleBut("fo")
  /\ fo = [orders |-> << >>, lists |-> << >>, pending |-> << >>,
           order_hashes |-> << >>, nops |-> 0, last |-> [op |-> "init"]]

BookStep(f) ==
  /\ fo' = f
  /\ UNCHANGED <<mainvars, fixvars, sessvars, auxvars, hq, lv>>

(* Order(checker, ...): __post_init__ appends the order to checker.orders *)
BookOrder ==
  \E args \in BookCtorArgs :
    /\ Len(fo.orders) < MaxOrders
    /\ LET list == default_factory(Len(fo.orders))
           made == __post_init__(args)
           o == IF \E j \in DOMAIN fo.lists : fo.lists[j] = list
                THEN [made EXCEPT !.queue =
                        fo.orders[CHOOSE j \in DOMAIN fo.lists :
                                    fo.lists[j] = list].queue]
                ELSE made
       IN BookStep([fo EXCEPT !.orders = Append(@, o),
                              !.lists = Append(@, list),
                              !.pending = Append(@, 0),
                              !.last = [op |-> "Order"]])

(* order.<op>(kw) on the i-th order; an answer is called only while a
   request of that order is unanswered. The queue the call leaves is the
   queue of every order that holds the same list. *)
BookCall ==
  \E i \in DOMAIN fo.orders,
     op \in Requests \cup Answers \cup {"fill"} :
    \E kw \in BookKwargs(op) :
      /\ fo.nops < MaxBookOps
      /\ op \in Answers => fo.pending[i] > 0
      /\ LET r == callback(op, fo.orders[i], kw)
         IN BookStep([fo EXCEPT
              !.orders = [j \in DOMAIN fo.orders |->
                            IF j = i THEN r.o
                            ELSE IF fo.lists[j] = fo.lists[i]
                            THEN [fo.orders[j] EXCEPT !.queue = r.o.queue]
                            ELSE fo.orders[j]],
              !.pending[i] = IF op \in Requests THEN @ + 1
                             ELSE IF op \in Answers THEN @ - 1 ELSE @,
              !.nops = @ + 1,
              !.last = [op |-> op, order |-> i, exc |-> r.exc]])

(* checker.find_order_by(attribute, value) *)
BookFind ==
  \E attribute \in {"cl_ord_id", "order_qty"} :
    \E value \in FindValues(attribute) :
      LET f == find_order_by(fo.order_hashes, fo.orders, attribute, value)
      IN /\ fo.nops < MaxBookOps
         /\ BookStep([fo EXCEPT
              !.order_hashes = f.order_hashes,
              !.nops = @ + 1,
              !.last = [op |-> "find_order_by", attribute |-> attribute,
                        value |-> value, result |-> f.result]])

NextBook ==
  \/ BookOrder
  \/ BookCall
  \/ BookFind

SpecBook == InitBook /\ [][NextBook]_vars

(* C39: after lifecycle calls in which each modified, mod_reject, canceled
   or cxl_reject answers an earlier unanswered modify or cancel, the
   history of every order holds 1 + (its unanswered requests) entries and
   is never empty; a call on one order leaves the history of every other
   order as it was. *)
HistoryCountsUnanswered ==
  [][/\ \A i \in DOMAIN fo'.orders :
         Len(fo'.orders[i].queue) = 1 + fo'.pending[i]
     /\ fo'.last.op \in Requests \cup Answers =>
         \A j \in DOMAIN fo.orders :
           j # fo'.last.order => fo'.orders[j].queue = fo.orders[j].queue]_vars

(* an answer was made on an order that still has an unanswered request,
   next to another order *)
WitnessAnswerLeavesOneRequest ==
  /\ fo.last.op \in Answers
  /\ fo.pending[fo.last.order] = 1
  /\ Len(fo.orders) = 2

(* C40: find_order_by(attribute, v) returns an order of checker.orders
   whose attribute now equals v whenever there is one, and None otherwise,
   also for orders made, or changed, after the first find_order_by on that
   attribute. *)
FindReturnsCurrentMatch ==
  fo.last.op = "find_order_by" =>
    LET matches == {i \in DOMAIN fo.orders :
                      fo.orders[i][fo.last.attribute] = fo.last.value}
    IN IF matches = {} THEN fo.last.result = 0
       ELSE fo.last.result \in matches

====
